---- MODULE Spec2Model ----
(***************************************************************************)
(* Model of security/vault.py (Vault) and security/identity.py             *)
(* (IdentityManager).                                                      *)
(*                                                                         *)
(* Cryptography is idealised: AES-GCM decryption succeeds exactly on a     *)
(* ciphertext produced by encryption under the same key and nonce; HMAC,   *)
(* SHA-256 and PBKDF2 are injective; every secrets.token_bytes /           *)
(* token_hex call returns a value that occurs nowhere in the state (Fresh).*)
(***************************************************************************)
EXTENDS Integers, Sequences, FiniteSets, TLC

\* ------------------------------------------------------------------------
\* Bounds of the model
\* ------------------------------------------------------------------------
\* number of write steps a file image is written in (a stop may fall between)
ImageChunks == 2
\* number of times the process stops in the middle of a vault call
MaxCrashes == 1
\* number of times somebody else changes the vault file
MaxTampers == 1
\* pairing tokens issued, signing keys generated
MaxTokens == 1
MaxKeys == 2
\* vault writes followed by the log of nonces
MaxWrites == 3
\* inbound messages a ChannelManager handles
MaxMessages == 2

\* ------------------------------------------------------------------------
\* security/vault.py : constants
\* ------------------------------------------------------------------------
MAGIC == "RUBV"
VERSION == 1
KEY_MODE_DPAPI == 0
KEY_MODE_PBKDF2 == 1
\* self._path, and tmp = self._path.with_suffix(".enc.tmp") in Vault._save
VaultPath == "vault.enc"
TmpPathInPlace == "vault.enc"
TmpPath == "vault.enc.tmp"
Paths == {VaultPath, TmpPath}

\* inputs
VaultIds == {1, 2}
Names == {"n1", "n2"}
Values == {"v1", "v2"}
\* passphrases: 0 stands for None / "" (falsy), 1 for a passphrase
NoPass == 0
Passphrases == {0, 1}

VARIABLES
    fs,          \* the files at Vault._path and at its temporary path
    sidecar,     \* the file at _dpapi_sidecar_path()
    dpapi,       \* _DPAPI_AVAILABLE of the running process
    vaults,      \* the Vault instances of the running process
    call,        \* the vault call in progress and its position
    last,        \* the vault call that has just returned, with its result
    written,     \* the image the last completed _save put at the vault path
    crashes,     \* number of stops in the middle of a call so far
    tampers,     \* number of changes made to the vault file by somebody else
    nonceLog,    \* when kept: the <<key, nonce>> of every _save so far, in order
    idm,         \* the IdentityManager instance of the running process
    keyFile,     \* the file signing.key
    allowFile,   \* the file allowlist.json
    now,         \* time.time(), in whole seconds
    issued,      \* the tokens create_pairing_token has returned so far
    idlast,      \* the IdentityManager call that has just returned
    accepted,    \* per nonce, the successful verifications by this instance
    tried,       \* the issued tokens this instance was asked to verify
    keysMade,    \* number of signing keys generated so far
    allowRef,    \* the peers allowed by the last completed allowlist operation
    idcrashes,   \* number of stops in the middle of an IdentityManager call
    idtampers,   \* number of changes made to allowlist.json by somebody else
    chan         \* the ChannelManager of the running process and its messages

vaultVars ==
    <<fs, sidecar, dpapi, vaults, call, last, written, crashes, tampers, nonceLog>>
identityVars ==
    <<idm, keyFile, allowFile, now, issued, idlast, accepted, tried, keysMade,
      allowRef, idcrashes, idtampers>>
channelVars == <<chan>>
vars == <<vaultVars, identityVars, channelVars>>

vaultFile == fs[VaultPath]
tmpFile == fs[TmpPath]

\* ------------------------------------------------------------------------
\* Values
\* ------------------------------------------------------------------------
NoFile == [exists |-> FALSE]
NoKey == <<"none", 0, 0>>
NoBytes == <<"none", 0, 0>>
NoVault == [made |-> FALSE]
Idle == [pc |-> "idle"]
NoCall == [op |-> "none"]
EmptyMap == [k \in {} |-> "v1"]
\* the log of nonces: not kept, and kept but empty
NoLog == [on |-> FALSE, pairs |-> <<>>]
EmptyLog == [on |-> TRUE, pairs |-> <<>>]

\* secrets.token_bytes(32) used as an AES key, and as a salt
RandomKey(r) == <<"rnd", r, 0>>
RandomSalt(r) == <<"salt", r, 0>>

\* json.dumps(self._data, separators=(",", ":")).encode("utf-8")
JsonDumps(m) == {<<k, m[k]>> : k \in DOMAIN m}
\* json.loads(plaintext.decode("utf-8"))
JsonLoads(pt) == [k \in {p[1] : p \in pt} |-> (CHOOSE p \in pt : p[1] = k)[2]]

\* AESGCM(key).encrypt(nonce, plaintext, None)
AesGcmEncrypt(key, nonce, pt) == [k |-> key, n |-> nonce, pt |-> pt, ok |-> TRUE]
\* AESGCM(key).decrypt(nonce, ct, None) succeeds (the tag verifies)
AesGcmVerifies(key, nonce, ct) == ct.ok /\ ct.k = key /\ ct.n = nonce

\* Vault._pbkdf2_key
pbkdf2_key(passphrase, salt) == <<"kdf", passphrase, salt[2]>>

\* win32crypt.CryptProtectData(data, ...) : a fresh blob for every call
CryptProtectData(key, r) == <<"blob", key[2], r>>
\* win32crypt.CryptUnprotectData(blob, ...)
CryptUnprotectData(blob) == <<"rnd", blob[2], 0>>
\* hashlib.sha256(encrypted).digest()
Sha256(blob) == <<"sha", blob[2], blob[3]>>

\* a file holding the first n chunks of image img
FileOf(img, n) == [exists |-> TRUE, img |-> img, n |-> n]
Complete(f) == f.exists /\ f.n = ImageChunks

\* ------------------------------------------------------------------------
\* Random values
\* ------------------------------------------------------------------------
\* the random values of one kind ("key", "salt", "blob", "nonce") that occur
\* in a byte string, a file, an instance, a call
BytesIds(b, kind) ==
    IF kind = "key" /\ b[1] \in {"rnd", "blob", "sha"} THEN {b[2]}
    ELSE IF kind = "salt" /\ b[1] = "salt" THEN {b[2]}
    ELSE IF kind = "salt" /\ b[1] = "kdf" THEN {b[3]}
    ELSE IF kind = "blob" /\ b[1] \in {"blob", "sha"} THEN {b[3]}
    ELSE {}
FileIds(f, kind) ==
    IF ~f.exists THEN {}
    ELSE IF kind = "nonce" THEN {f.img.nonce, f.img.ct.n}
    ELSE BytesIds(f.img.key_material, kind) \cup BytesIds(f.img.ct.k, kind)
FsIds(files, kind) == UNION {FileIds(files[p], kind) : p \in DOMAIN files}
SidecarIds(sc, kind) == IF sc.exists THEN BytesIds(sc.blob, kind) ELSE {}
InstanceIds(v, kind) ==
    IF v.made
    THEN BytesIds(v.aes_key, kind) \cup BytesIds(v.wrapped, kind)
         \cup FileIds(v.failedOn, kind)
    ELSE {}
CallIds(c, kind) ==
    IF "v" \in DOMAIN c
    THEN FsIds(c.before, kind) \cup SidecarIds(c.beforeSidecar, kind)
         \cup FileIds(c.wr, kind) \cup FileIds(c.preFile, kind)
         \cup InstanceIds(c.pre, kind) \cup InstanceIds(c.inst, kind)
         \cup UNION {FileIds(f, kind) : f \in c.imgs}
    ELSE {}
LogIds(log, kind) ==
    IF kind = "nonce" THEN {log.pairs[i][2] : i \in 1..Len(log.pairs)} ELSE {}
UsedIds(kind) ==
    FsIds(fs, kind) \cup FileIds(written, kind) \cup SidecarIds(sidecar, kind)
    \cup UNION {InstanceIds(vaults[i], kind) : i \in VaultIds}
    \cup CallIds(call, kind) \cup CallIds(last, kind) \cup LogIds(nonceLog, kind)

\* secrets.token_bytes : a value of this kind that occurs nowhere in the state
Fresh(kind) ==
    CHOOSE x \in 1..(Cardinality(UsedIds(kind)) + 1) :
        /\ x \notin UsedIds(kind)
        /\ \A y \in 1..(x - 1) : y \in UsedIds(kind)

\* ------------------------------------------------------------------------
\* Vault : construction
\* ------------------------------------------------------------------------
VaultStart ==
    /\ fs = [p \in Paths |-> NoFile]
    /\ sidecar = NoFile
    /\ dpapi \in BOOLEAN
    /\ vaults = [i \in VaultIds |-> NoVault]
    /\ call = Idle
    /\ last = NoCall
    /\ written = NoFile
    /\ crashes = 0
    /\ tampers = 0

VaultInit == VaultStart /\ nonceLog = NoLog

\* no IdentityManager constructed, an empty configuration directory
NoManager == [made |-> FALSE]
IdentityInit ==
    /\ idm = NoManager
    /\ keyFile = NoFile
    /\ allowFile = NoFile
    /\ now = 0
    /\ issued = <<>>
    /\ idlast = NoCall
    /\ accepted = EmptyMap
    /\ tried = {}
    /\ keysMade = 0
    /\ allowRef = {}
    /\ idcrashes = 0
    /\ idtampers = 0

\* no ChannelManager yet
NoChannels == [made |-> FALSE]
ChannelInit == chan = NoChannels

Init == VaultInit /\ IdentityInit /\ ChannelInit

\* the instance Vault.__init__ builds (failedOn: the file its last _load failed on)
NewVault(p, dp) ==
    [made |-> TRUE, passphrase |-> p, loaded |-> FALSE, data |-> EmptyMap,
     aes_key |-> NoKey,
     key_mode |-> IF dp THEN KEY_MODE_DPAPI ELSE KEY_MODE_PBKDF2,
     wrapped |-> NoBytes, failedOn |-> NoFile]

\* Vault.__init__
VaultNew(i, p) ==
    /\ call.pc = "idle"
    /\ ~vaults[i].made
    /\ vaults' = [vaults EXCEPT ![i] = NewVault(p, dpapi)]
    /\ UNCHANGED <<identityVars, channelVars, nonceLog, fs, sidecar, dpapi, call, last, written, crashes, tampers>>

\* Vault.is_locked
is_locked_ignores_file(i) == ~vaults[i].loaded
is_locked(i) == vaultFile.exists /\ ~vaults[i].loaded

\* the call returns (or raises) res
Return(c, res) ==
    /\ call' = Idle
    /\ last' = [c EXCEPT !.pc = "idle", !.res = res, !.imgs = {}]

\* a caller invokes store / retrieve / delete / list_keys / rotate_key
VaultCall(i, op, k, val) ==
    /\ call.pc = "idle"
    /\ vaults[i].made
    /\ nonceLog.on => Len(nonceLog.pairs) < MaxWrites
    /\ call' = [pc |-> "ensure", v |-> i, op |-> op, name |-> k, value |-> val,
                res |-> "", keys |-> {}, after |-> "return", how |-> "",
                before |-> fs, beforeSidecar |-> sidecar, wr |-> written,
                pre |-> vaults[i], inst |-> vaults[i], preFile |-> NoFile,
                imgs |-> {}]
    /\ last' = NoCall
    /\ UNCHANGED <<identityVars, channelVars, nonceLog, fs, sidecar, dpapi, vaults, written, crashes, tampers>>

\* ------------------------------------------------------------------------
\* Vault : opening
\* ------------------------------------------------------------------------
\* Vault._dpapi_unprotect : the key recovered from the sidecar, or the error
dpapi_unprotect(sc, dp) ==
    IF ~dp THEN [err |-> "no_dpapi", key |-> NoKey]
    ELSE IF ~sc.exists THEN [err |-> "no_sidecar", key |-> NoKey]
    ELSE IF sc.torn THEN [err |-> "unprotect_failed", key |-> NoKey]
    ELSE [err |-> "", key |-> CryptUnprotectData(sc.blob)]

\* Vault._load, header checks and key recovery: the error raised ("" for
\* none), the key, and the instance with the fields assigned so far
LoadKey_any_passphrase(v, f, sc, dp) ==
    IF f.n = 0 THEN [err |-> "too_small", key |-> NoKey, v |-> v]
    ELSE IF f.img.magic # MAGIC THEN [err |-> "bad_magic", key |-> NoKey, v |-> v]
    ELSE IF f.img.version # VERSION THEN [err |-> "bad_version", key |-> NoKey, v |-> v]
    ELSE
      LET v1 == [v EXCEPT !.key_mode = f.img.key_mode, !.wrapped = f.img.key_material]
          rec == IF f.img.key_mode = KEY_MODE_DPAPI
                 THEN dpapi_unprotect(sc, dp)
                 ELSE [err |-> "", key |-> pbkdf2_key(v.passphrase, f.img.key_material)]
      IN IF rec.err # "" THEN [err |-> rec.err, key |-> NoKey, v |-> v1]
         ELSE [err |-> "", key |-> rec.key, v |-> [v1 EXCEPT !.aes_key = rec.key]]
LoadKey(v, f, sc, dp) ==
    IF f.n = 0 THEN [err |-> "too_small", key |-> NoKey, v |-> v]
    ELSE IF f.img.magic # MAGIC THEN [err |-> "bad_magic", key |-> NoKey, v |-> v]
    ELSE IF f.img.version # VERSION THEN [err |-> "bad_version", key |-> NoKey, v |-> v]
    ELSE
      LET v1 == [v EXCEPT !.key_mode = f.img.key_mode, !.wrapped = f.img.key_material]
          rec == IF f.img.key_mode = KEY_MODE_DPAPI
                 THEN IF ~dp THEN [err |-> "no_dpapi", key |-> NoKey]
                      ELSE dpapi_unprotect(sc, dp)
                 ELSE IF v.passphrase = NoPass
                      THEN [err |-> "no_passphrase", key |-> NoKey]
                      ELSE [err |-> "", key |-> pbkdf2_key(v.passphrase, f.img.key_material)]
      IN IF rec.err # "" THEN [err |-> rec.err, key |-> NoKey, v |-> v1]
         ELSE [err |-> "", key |-> rec.key, v |-> [v1 EXCEPT !.aes_key = rec.key]]

\* LoadResult with the decryption failure swallowed: the payload is used
\* whether or not the tag verifies
LoadResult_unauthenticated(v, f, sc, dp) ==
    LET r == LoadKey(v, f, sc, dp) IN
    IF r.err # "" THEN [err |-> r.err, v |-> r.v]
    ELSE [err |-> "", v |-> [r.v EXCEPT !.loaded = TRUE, !.data = JsonLoads(f.img.ct.pt)]]

\* LoadResult with self._data set to {} before the file is read
LoadResult_early_map(v, f, sc, dp) ==
    LET r == LoadKey(v, f, sc, dp)
        early == [r.v EXCEPT !.loaded = TRUE, !.data = EmptyMap]
    IN IF r.err # "" THEN [err |-> r.err, v |-> early]
       ELSE IF f.n < ImageChunks \/ ~AesGcmVerifies(r.key, f.img.nonce, f.img.ct)
            THEN [err |-> "decrypt_failed", v |-> early]
            ELSE [err |-> "", v |-> [r.v EXCEPT !.loaded = TRUE, !.data = JsonLoads(f.img.ct.pt)]]

\* Vault._load on instance v : the error raised ("" for none) and the
\* instance as the call leaves it
LoadResult(v, f, sc, dp) ==
    LET r == LoadKey(v, f, sc, dp) IN
    IF r.err # "" THEN [err |-> r.err, v |-> r.v]
    ELSE IF f.n < ImageChunks \/ ~AesGcmVerifies(r.key, f.img.nonce, f.img.ct)
         THEN [err |-> "decrypt_failed", v |-> r.v]
         ELSE [err |-> "", v |-> [r.v EXCEPT !.loaded = TRUE, !.data = JsonLoads(f.img.ct.pt)]]

\* the call goes on after _ensure_loaded
EnterBody(c, v, f) == [c EXCEPT !.pc = "body", !.after = "return", !.inst = v,
                                !.preFile = f]

\* Vault._ensure_loaded, self._data is not None
_ensure_loaded ==
    /\ call.pc = "ensure"
    /\ vaults[call.v].loaded
    /\ call' = EnterBody([call EXCEPT !.how = "was_loaded"], vaults[call.v], vaultFile)
    /\ UNCHANGED <<identityVars, channelVars, nonceLog, fs, sidecar, dpapi, vaults, last, written, crashes, tampers>>

\* Vault._ensure_loaded -> Vault._load
_load ==
    /\ call.pc = "ensure"
    /\ ~vaults[call.v].loaded
    /\ vaultFile.exists
    /\ LET r == LoadResult(vaults[call.v], vaultFile, sidecar, dpapi) IN
         IF r.err = ""
         THEN /\ vaults' = [vaults EXCEPT ![call.v] = r.v]
              /\ call' = EnterBody([call EXCEPT !.how = "loaded"], r.v, vaultFile)
              /\ last' = last
         ELSE /\ vaults' = [vaults EXCEPT ![call.v] = [r.v EXCEPT !.failedOn = vaultFile]]
              /\ Return([call EXCEPT !.how = "load_failed"], r.err)
    /\ UNCHANGED <<identityVars, channelVars, nonceLog, fs, sidecar, dpapi, written, crashes, tampers>>

\* Vault._ensure_loaded -> Vault._initialise_new_vault, up to its first write
_initialise_new_vault ==
    /\ call.pc = "ensure"
    /\ ~vaults[call.v].loaded
    /\ ~vaultFile.exists
    /\ LET v == vaults[call.v]
           key == RandomKey(Fresh("key"))
           salt == RandomSalt(Fresh("salt"))
       IN IF v.key_mode = KEY_MODE_DPAPI
          THEN /\ vaults' = [vaults EXCEPT ![call.v].aes_key = key]
               /\ IF ~dpapi
                  THEN Return([call EXCEPT !.how = "init_failed"], "no_dpapi")
                  ELSE /\ call' = [call EXCEPT !.pc = "protect", !.how = "created",
                                               !.after = "body"]
                       /\ last' = last
          ELSE IF v.passphrase = NoPass
               THEN /\ vaults' = [vaults EXCEPT ![call.v].aes_key = key]
                    /\ Return([call EXCEPT !.how = "init_failed"], "no_passphrase")
               ELSE /\ vaults' = [vaults EXCEPT ![call.v] =
                           [v EXCEPT !.wrapped = salt,
                                     !.aes_key = pbkdf2_key(v.passphrase, salt),
                                     !.loaded = TRUE, !.data = EmptyMap]]
                    /\ call' = [call EXCEPT !.pc = "save", !.how = "created",
                                            !.after = "body"]
                    /\ last' = last
    /\ UNCHANGED <<identityVars, channelVars, nonceLog, fs, sidecar, dpapi, written, crashes, tampers>>

\* Vault._dpapi_protect : sidecar.write_bytes(encrypted) has truncated the
\* sidecar and not yet written the blob
_dpapi_protect ==
    /\ call.pc = "protect"
    /\ sidecar' = [exists |-> TRUE, torn |-> TRUE, blob |-> NoBytes]
    /\ call' = [call EXCEPT !.pc = "protect_write"]
    /\ UNCHANGED <<identityVars, channelVars, nonceLog, fs, dpapi, vaults, last, written, crashes, tampers>>

\* Vault._dpapi_protect : the blob is written and its fingerprint returned
\* (_initialise_new_vault then sets self._data = {})
_dpapi_protect_write ==
    /\ call.pc = "protect_write"
    /\ LET v == vaults[call.v]
           blob == CryptProtectData(v.aes_key, Fresh("blob"))
           v1 == [v EXCEPT !.wrapped = Sha256(blob)]
       IN /\ sidecar' = [exists |-> TRUE, torn |-> FALSE, blob |-> blob]
          /\ vaults' = [vaults EXCEPT ![call.v] =
                IF call.after = "body"
                THEN [v1 EXCEPT !.loaded = TRUE, !.data = EmptyMap]
                ELSE v1]
    /\ call' = [call EXCEPT !.pc = "save"]
    /\ UNCHANGED <<identityVars, channelVars, nonceLog, fs, dpapi, last, written, crashes, tampers>>

\* ------------------------------------------------------------------------
\* Vault : writing
\* ------------------------------------------------------------------------
\* the image Vault._save builds for instance v with nonce r
SaveImage_fixed_nonce(v, r) ==
    [magic |-> MAGIC, version |-> VERSION, key_mode |-> v.key_mode,
     key_material |-> v.wrapped, nonce |-> 0,
     ct |-> AesGcmEncrypt(v.aes_key, 0, JsonDumps(v.data))]
SaveImage(v, r) ==
    [magic |-> MAGIC, version |-> VERSION, key_mode |-> v.key_mode,
     key_material |-> v.wrapped, nonce |-> r,
     ct |-> AesGcmEncrypt(v.aes_key, r, JsonDumps(v.data))]

\* the key and the nonce an image was encrypted with
LogEntry(img) == <<img.ct.k, img.ct.n>>

\* Vault._save : the image is built and the temporary file opened (empty)
_save ==
    /\ call.pc = "save"
    /\ fs' = [fs EXCEPT ![TmpPath] = FileOf(SaveImage(vaults[call.v], Fresh("nonce")), 0)]
    /\ call' = [call EXCEPT !.pc = "write"]
    /\ nonceLog' = IF nonceLog.on
                   THEN [nonceLog EXCEPT !.pairs =
                            Append(@, LogEntry(SaveImage(vaults[call.v], Fresh("nonce"))))]
                   ELSE nonceLog
    /\ UNCHANGED <<identityVars, channelVars, sidecar, dpapi, vaults, last, written, crashes, tampers>>

\* Vault._save : tmp.write_bytes(...) writes the next part of the image
_save_write ==
    /\ call.pc = "write"
    /\ fs[TmpPath].n < ImageChunks
    /\ fs' = [fs EXCEPT ![TmpPath].n = fs[TmpPath].n + 1]
    /\ UNCHANGED <<identityVars, channelVars, nonceLog, sidecar, dpapi, vaults, call, last, written, crashes, tampers>>

\* Vault._save : tmp.replace(self._path); the caller of _save goes on
_save_replace ==
    /\ call.pc = "write"
    /\ fs[TmpPath].n = ImageChunks
    /\ fs' = [p \in Paths |-> IF p = VaultPath THEN fs[TmpPath] ELSE NoFile]
    /\ written' = fs[TmpPath]
    /\ LET c == [call EXCEPT !.imgs = call.imgs \cup {fs[TmpPath]}] IN
         IF call.after = "body"
         THEN /\ call' = EnterBody(c, vaults[call.v], fs[TmpPath])
              /\ last' = last
         ELSE Return(c, "ok")
    /\ UNCHANGED <<identityVars, channelVars, nonceLog, sidecar, dpapi, vaults, crashes, tampers>>

\* ------------------------------------------------------------------------
\* Vault : public API, after _ensure_loaded
\* ------------------------------------------------------------------------
\* what retrieve returns or raises on a loaded instance v
RetrieveOn(v, k) == IF k \notin DOMAIN v.data THEN "KeyError" ELSE v.data[k]

\* self._data[key] = value
StoreInto_drops_others(m, k, val) == [x \in {k} |-> val]
StoreInto(m, k, val) == [x \in DOMAIN m \cup {k} |-> IF x = k THEN val ELSE m[x]]

\* del self._data[key]
DeleteFrom(m, k) == [x \in DOMAIN m \ {k} |-> m[x]]

\* Vault.store
store ==
    /\ call.pc = "body" /\ call.op = "store"
    /\ vaults' = [vaults EXCEPT ![call.v].data = StoreInto(@, call.name, call.value)]
    /\ call' = [call EXCEPT !.pc = "save"]
    /\ UNCHANGED <<identityVars, channelVars, nonceLog, fs, sidecar, dpapi, last, written, crashes, tampers>>

\* Vault.retrieve
retrieve ==
    /\ call.pc = "body" /\ call.op = "retrieve"
    /\ Return(call, RetrieveOn(vaults[call.v], call.name))
    /\ UNCHANGED <<identityVars, channelVars, nonceLog, fs, sidecar, dpapi, vaults, written, crashes, tampers>>

\* Vault.delete that ignores a missing name (self._data.pop(key, None))
delete_ignores_missing ==
    /\ call.pc = "body" /\ call.op = "delete"
    /\ vaults' = [vaults EXCEPT ![call.v].data = DeleteFrom(@, call.name)]
    /\ call' = [call EXCEPT !.pc = "save"]
    /\ last' = last
    /\ UNCHANGED <<identityVars, channelVars, nonceLog, fs, sidecar, dpapi, written, crashes, tampers>>

\* Vault.delete
delete ==
    /\ call.pc = "body" /\ call.op = "delete"
    /\ IF call.name \notin DOMAIN vaults[call.v].data
       THEN /\ Return(call, "KeyError")
            /\ vaults' = vaults
       ELSE /\ vaults' = [vaults EXCEPT ![call.v].data = DeleteFrom(@, call.name)]
            /\ call' = [call EXCEPT !.pc = "save"]
            /\ last' = last
    /\ UNCHANGED <<identityVars, channelVars, nonceLog, fs, sidecar, dpapi, written, crashes, tampers>>

\* Vault.list_keys
list_keys ==
    /\ call.pc = "body" /\ call.op = "list_keys"
    /\ Return([call EXCEPT !.keys = DOMAIN vaults[call.v].data], "ok")
    /\ UNCHANGED <<identityVars, channelVars, nonceLog, fs, sidecar, dpapi, vaults, written, crashes, tampers>>

\* RotateInstance with the old salt kept in the header
RotateInstance_keeps_salt(v, key, salt) == [v EXCEPT !.aes_key = key]

\* RotateInstance that starts again from an empty map
RotateInstance_clears_map(v, key, salt) ==
    [v EXCEPT !.aes_key = key, !.wrapped = salt, !.data = EmptyMap]

\* Vault.rotate_key in PBKDF2 mode : the new key and the new salt
RotateInstance(v, key, salt) == [v EXCEPT !.aes_key = key, !.wrapped = salt]

\* Vault.rotate_key, up to its first write
rotate_key ==
    /\ call.pc = "body" /\ call.op = "rotate_key"
    /\ LET v == vaults[call.v]
           key == RandomKey(Fresh("key"))
       IN IF v.key_mode = KEY_MODE_DPAPI
          THEN /\ vaults' = [vaults EXCEPT ![call.v].aes_key = key]
               /\ IF ~dpapi
                  THEN Return(call, "no_dpapi")
                  ELSE /\ call' = [call EXCEPT !.pc = "protect"]
                       /\ last' = last
          ELSE /\ vaults' = [vaults EXCEPT ![call.v] =
                      RotateInstance(v, key, RandomSalt(Fresh("salt")))]
               /\ call' = [call EXCEPT !.pc = "save"]
               /\ last' = last
    /\ UNCHANGED <<identityVars, channelVars, nonceLog, fs, sidecar, dpapi, written, crashes, tampers>>

\* ------------------------------------------------------------------------
\* Vault : the process, and whoever else can write the file
\* ------------------------------------------------------------------------
\* the process exits between two calls and a new one starts
Restart ==
    /\ call.pc = "idle"
    /\ \E i \in VaultIds : vaults[i].made
    /\ vaults' = [i \in VaultIds |-> NoVault]
    /\ last' = NoCall
    /\ dpapi' \in BOOLEAN
    /\ UNCHANGED <<identityVars, channelVars, nonceLog, fs, sidecar, call, written, crashes, tampers>>

\* the process stops in the middle of a call and a new one starts
Crash ==
    /\ call.pc # "idle"
    /\ crashes < MaxCrashes
    /\ crashes' = crashes + 1
    /\ vaults' = [i \in VaultIds |-> NoVault]
    /\ call' = Idle
    /\ last' = NoCall
    /\ dpapi' \in BOOLEAN
    /\ UNCHANGED <<identityVars, channelVars, nonceLog, fs, sidecar, written, tampers>>

\* somebody changes the nonce bytes of the vault file
TamperNonce(n) ==
    /\ call.pc = "idle" /\ tampers < MaxTampers
    /\ Complete(vaultFile)
    /\ n # vaultFile.img.nonce
    /\ fs' = [fs EXCEPT ![VaultPath].img.nonce = n]
    /\ tampers' = tampers + 1
    /\ last' = NoCall
    /\ UNCHANGED <<identityVars, channelVars, nonceLog, sidecar, dpapi, vaults, call, written, crashes>>

\* somebody changes a bit of the ciphertext or of its tag
TamperCiphertext ==
    /\ call.pc = "idle" /\ tampers < MaxTampers
    /\ Complete(vaultFile)
    /\ vaultFile.img.ct.ok
    /\ fs' = [fs EXCEPT ![VaultPath].img.ct.ok = FALSE]
    /\ tampers' = tampers + 1
    /\ last' = NoCall
    /\ UNCHANGED <<identityVars, channelVars, nonceLog, sidecar, dpapi, vaults, call, written, crashes>>

\* somebody truncates the vault file
TamperTruncate(n) ==
    /\ call.pc = "idle" /\ tampers < MaxTampers
    /\ vaultFile.exists
    /\ n < vaultFile.n
    /\ fs' = [fs EXCEPT ![VaultPath].n = n]
    /\ tampers' = tampers + 1
    /\ last' = NoCall
    /\ UNCHANGED <<identityVars, channelVars, nonceLog, sidecar, dpapi, vaults, call, written, crashes>>

\* somebody changes the magic bytes, or the version field
TamperHeader(field) ==
    /\ call.pc = "idle" /\ tampers < MaxTampers
    /\ Complete(vaultFile)
    /\ \/ /\ field = "magic" /\ vaultFile.img.magic = MAGIC
          /\ fs' = [fs EXCEPT ![VaultPath].img.magic = "XXXX"]
       \/ /\ field = "version" /\ vaultFile.img.version = VERSION
          /\ fs' = [fs EXCEPT ![VaultPath].img.version = VERSION + 1]
    /\ tampers' = tampers + 1
    /\ last' = NoCall
    /\ UNCHANGED <<identityVars, channelVars, nonceLog, sidecar, dpapi, vaults, call, written, crashes>>

\* the values of the key_mode byte of a header: the two modes, and another
KeyModeBytes == {KEY_MODE_DPAPI, KEY_MODE_PBKDF2, KEY_MODE_PBKDF2 + 1}

\* somebody changes the key_mode byte of the vault file
TamperKeyMode(m) ==
    /\ call.pc = "idle" /\ tampers < MaxTampers
    /\ Complete(vaultFile)
    /\ m # vaultFile.img.key_mode
    /\ fs' = [fs EXCEPT ![VaultPath].img.key_mode = m]
    /\ tampers' = tampers + 1
    /\ last' = NoCall
    /\ UNCHANGED <<identityVars, channelVars, nonceLog, sidecar, dpapi, vaults, call, written, crashes>>

\* while the program is not running, somebody replaces the sidecar by another
\* DPAPI blob: one that wraps the same key again, or one that wraps another key
TamperSidecar(how) ==
    /\ call.pc = "idle" /\ tampers < MaxTampers
    /\ \A i \in VaultIds : ~vaults[i].made
    /\ sidecar.exists /\ ~sidecar.torn
    /\ sidecar' = [sidecar EXCEPT !.blob =
                      IF how = "same_key"
                      THEN CryptProtectData(CryptUnprotectData(sidecar.blob), Fresh("blob"))
                      ELSE CryptProtectData(RandomKey(Fresh("key")), Fresh("blob"))]
    /\ tampers' = tampers + 1
    /\ last' = NoCall
    /\ UNCHANGED <<identityVars, channelVars, nonceLog, fs, dpapi, vaults, call, written, crashes>>

VaultSteps ==
    \/ _ensure_loaded
    \/ _load
    \/ _initialise_new_vault
    \/ _dpapi_protect
    \/ _dpapi_protect_write
    \/ _save
    \/ _save_write
    \/ _save_replace
    \/ store
    \/ retrieve
    \/ delete
    \/ list_keys
    \/ rotate_key

VaultCalls(i) ==
    \/ \E k \in Names, val \in Values : VaultCall(i, "store", k, val)
    \/ \E k \in Names : VaultCall(i, "retrieve", k, "")
    \/ \E k \in Names : VaultCall(i, "delete", k, "")
    \/ VaultCall(i, "list_keys", "", "")
    \/ VaultCall(i, "rotate_key", "", "")

Tamper ==
    \/ \E n \in {0} \cup UsedIds("nonce") : TamperNonce(n)
    \/ TamperCiphertext
    \/ \E n \in 0..(ImageChunks - 1) : TamperTruncate(n)
    \/ \E field \in {"magic", "version"} : TamperHeader(field)

\* one Vault instance per process; the process may stop and start again
NextVault ==
    \/ \E p \in Passphrases : VaultNew(1, p)
    \/ VaultCalls(1)
    \/ VaultSteps
    \/ Restart
    \/ Crash

SpecVault == Init /\ [][NextVault]_vars

\* one Vault instance per process, and a vault file that is tampered with
NextVaultTamper ==
    \/ \E p \in Passphrases : VaultNew(1, p)
    \/ VaultCalls(1)
    \/ VaultSteps
    \/ Restart
    \/ Tamper

SpecVaultTamper == Init /\ [][NextVaultTamper]_vars

\* one Vault instance per process, and a sidecar that is replaced between runs
NextSidecar ==
    \/ \E p \in Passphrases : VaultNew(1, p)
    \/ VaultCalls(1)
    \/ VaultSteps
    \/ Restart
    \/ \E how \in {"same_key", "other_key"} : TamperSidecar(how)

SpecSidecar == Init /\ [][NextSidecar]_vars

\* two Vault instances in one process on the same file, as when two
\* components each construct their default Vault; no key rotation
NextShared ==
    \/ \E i \in VaultIds, p \in Passphrases : VaultNew(i, p)
    \/ \E i \in VaultIds, k \in Names, val \in {"v1"} : VaultCall(i, "store", k, val)
    \/ \E i \in VaultIds, k \in Names : VaultCall(i, "retrieve", k, "")
    \/ \E i \in VaultIds, k \in Names : VaultCall(i, "delete", k, "")
    \/ \E i \in VaultIds : VaultCall(i, "list_keys", "", "")
    \/ _ensure_loaded
    \/ _load
    \/ _initialise_new_vault
    \/ _dpapi_protect
    \/ _dpapi_protect_write
    \/ _save
    \/ _save_write
    \/ _save_replace
    \/ store
    \/ retrieve
    \/ delete
    \/ list_keys

SpecShared == Init /\ [][NextShared]_vars

\* one Vault instance per process, and a vault file whose key_mode byte is
\* changed
NextKeyMode ==
    \/ \E p \in Passphrases : VaultNew(1, p)
    \/ VaultCalls(1)
    \/ VaultSteps
    \/ Restart
    \/ \E m \in KeyModeBytes : TamperKeyMode(m)

SpecKeyMode == Init /\ [][NextKeyMode]_vars

\* one Vault instance per process that works on one name and rotates, with the
\* key and the nonce of every _save kept in nonceLog
InitNonces == VaultStart /\ IdentityInit /\ ChannelInit /\ nonceLog = EmptyLog
NextNonces ==
    \/ \E p \in Passphrases : VaultNew(1, p)
    \/ \E val \in Values : VaultCall(1, "store", "n1", val)
    \/ VaultCall(1, "delete", "n1", "")
    \/ VaultCall(1, "rotate_key", "", "")
    \/ VaultCall(1, "retrieve", "n1", "")
    \/ VaultCall(1, "list_keys", "", "")
    \/ VaultSteps
    \/ Restart
    \/ Crash

SpecNonces == InitNonces /\ [][NextNonces]_vars

\* ------------------------------------------------------------------------
\* Vault : properties
\* ------------------------------------------------------------------------
\* a vault call has returned and nothing has happened since
Returned == call.pc = "idle" /\ "v" \in DOMAIN last

\* the errors Vault._load raises
OpenErrors == {"too_small", "bad_magic", "bad_version", "no_dpapi", "no_sidecar",
               "unprotect_failed", "no_passphrase", "decrypt_failed"}

\* what retrieve(k) returns on a new Vault(path, passphrase) over the files
\* as they are now
RetrieveOnNewInstance(passphrase, k) ==
    LET r == LoadResult(NewVault(passphrase, dpapi), vaultFile, sidecar, dpapi)
    IN IF r.err # "" THEN r.err ELSE RetrieveOn(r.v, k)

\* C1: once store(name, value) has returned, retrieve(name) returns value on
\* the same instance and on a new instance over the same files with the same
\* passphrase, whatever successful operations came before the store.
C1_StoreRetrieveRoundTrip ==
    (Returned /\ last.op = "store" /\ last.res = "ok") =>
        /\ RetrieveOn(vaults[last.v], last.name) = last.value
        /\ RetrieveOnNewInstance(vaults[last.v].passphrase, last.name) = last.value

\* the nonce or the ciphertext+tag of file f differ from those of image w
NonceOrCtChanged(f, w) ==
    /\ f.exists /\ w.exists
    /\ f.img.nonce # w.img.nonce \/ f.img.ct # w.img.ct

C7_NoFallbackAfterFailedOpen ==
    /\ (Returned /\ last.how = "load_failed") =>
          /\ last.res \in OpenErrors
          /\ ~vaults[last.v].loaded
          /\ is_locked(last.v)
          /\ fs = last.before
          /\ sidecar = last.beforeSidecar
    /\ (Returned /\ last.pre.failedOn.exists
                 /\ last.pre.failedOn = last.before[VaultPath]) =>
          last.how = "load_failed"

\* C7 witness: a second call on an instance whose open had failed on the same
\* file has failed too
C7_Witness ==
    /\ Returned /\ last.how = "load_failed"
    /\ last.pre.failedOn = last.before[VaultPath]
    /\ last.op \in {"store", "rotate_key"}

\* C8: the file at the vault path is absent only as long as no vault file was
\* ever created, and otherwise a complete image: during a call, the image from
\* before the call or an image a _save of this call has put there.
C8_VaultPathNeverPartial ==
    /\ vaultFile.exists => Complete(vaultFile)
    /\ ~vaultFile.exists => ~written.exists
    /\ (call.pc # "idle" /\ vaultFile.exists) =>
          \/ vaultFile = call.before[VaultPath]
          \/ vaultFile \in call.imgs

\* C8 witness: the temporary file is partly written while the vault path
\* holds the complete image from before the call
C8_Witness ==
    /\ call.pc = "write"
    /\ tmpFile.n > 0 /\ tmpFile.n < ImageChunks
    /\ Complete(vaultFile) /\ vaultFile = call.before[VaultPath]

\* C9: after rotate_key() has returned, list_keys() is the same set of names
\* as before the rotation and every one of them is retrieved with its value.
C9_RotateKeepsMap ==
    (Returned /\ last.op = "rotate_key" /\ last.res = "ok") =>
        /\ DOMAIN vaults[last.v].data = DOMAIN last.inst.data
        /\ \A k \in DOMAIN last.inst.data :
              RetrieveOn(vaults[last.v], k) = last.inst.data[k]

\* C9 witness: rotate_key() has returned on a vault holding a credential
C9_Witness ==
    /\ Returned /\ last.op = "rotate_key" /\ last.res = "ok"
    /\ DOMAIN last.inst.data # {}

\* C10: after rotate_key() has returned, the header key material and the key
\* of the ciphertext differ from those before the rotation, and neither the
\* vault file, nor the temporary file, nor the sidecar holds the old key
\* material or a ciphertext under the old key.
C10_RotateReplacesKeyMaterial ==
    (Returned /\ last.op = "rotate_key" /\ last.res = "ok") =>
        LET old == last.preFile.img IN
        /\ vaultFile.img.key_material # old.key_material
        /\ vaultFile.img.ct.k # old.ct.k
        /\ \A p \in Paths : fs[p].exists =>
              /\ fs[p].img.key_material # old.key_material
              /\ fs[p].img.ct.k # old.ct.k
        /\ (sidecar.exists /\ ~sidecar.torn) =>
              /\ CryptUnprotectData(sidecar.blob) # old.ct.k
              /\ Sha256(sidecar.blob) # old.key_material

\* C10 witness: rotate_key() has returned on a vault that was opened from disk
C10_Witness ==
    /\ Returned /\ last.op = "rotate_key" /\ last.res = "ok"
    /\ last.how = "loaded" /\ last.preFile.exists

\* C11: in passphrase mode, after every completed write (creation, store,
\* delete, rotate_key) the key of the ciphertext on disk is
\* KDF(passphrase, salt) for the salt in the header of that same file.
C11_KeyIsKdfOfHeaderSalt ==
    (/\ Returned
     /\ \/ last.op \in {"store", "delete", "rotate_key"} /\ last.res = "ok"
        \/ last.how = "created"
     /\ written.exists
     /\ written.img.key_mode = KEY_MODE_PBKDF2)
    => written.img.ct.k = pbkdf2_key(vaults[last.v].passphrase,
                                     written.img.key_material)

\* the operations that write the vault file
WriteOps == {"store", "delete", "rotate_key"}

\* C21: every vault write (creation, store, delete, rotate_key) generates a
\* new nonce and writes the whole map re-encrypted; over any sequence of
\* writes, by one instance or by successive instances over the same file, no
\* two writes under the same key use the same nonce.
C21_NonceNeverRepeats ==
    /\ \A i, j \in 1..Len(nonceLog.pairs) :
           i < j => nonceLog.pairs[i] # nonceLog.pairs[j]
    /\ (/\ Returned
        /\ (last.op \in WriteOps /\ last.res = "ok") \/ last.how = "created"
        /\ vaults[last.v].loaded)
       => /\ vaultFile = written
          /\ \E i \in 1..Len(nonceLog.pairs) :
                 nonceLog.pairs[i] = LogEntry(written.img)
          /\ last.wr.exists => written.img.nonce # last.wr.img.nonce
          /\ last.res = "ok" =>
                 written.img.ct = AesGcmEncrypt(vaults[last.v].aes_key,
                                                written.img.nonce,
                                                JsonDumps(vaults[last.v].data))

\* three writes were made under one key, the last by a later instance than
\* the first
C21_Witness ==
    /\ Returned /\ last.op = "store" /\ last.res = "ok" /\ last.how = "loaded"
    /\ Len(nonceLog.pairs) >= 3
    /\ \A i \in 1..3 : nonceLog.pairs[i][1] = nonceLog.pairs[1][1]

\* the call in progress is about to run the body of op
InBody(op) == call.pc = "body" /\ call.op = op

\* C22: the credential map of an opened instance follows a reference map:
\* store(name, v) makes retrieve(name) return v and changes no other name,
\* delete(name) removes that name only, nothing else changes the map;
\* retrieve(name) returns the value of the last store(name, _) not followed
\* by delete(name), and list_keys() is exactly the set of such names.
C22_MapFollowsReference ==
    [][/\ (vaults[1].made /\ vaults[1].loaded /\ vaults'[1].made)
          => /\ vaults'[1].loaded
             /\ \A k \in Names :
                    RetrieveOn(vaults'[1], k) =
                        IF InBody("store") /\ k = call.name THEN call.value
                        ELSE IF InBody("delete") /\ k = call.name THEN "KeyError"
                        ELSE RetrieveOn(vaults[1], k)
       /\ (InBody("retrieve") /\ Returned')
          => last'.res = IF call.name \in DOMAIN vaults[1].data
                         THEN vaults[1].data[call.name] ELSE "KeyError"
       /\ (InBody("list_keys") /\ Returned')
          => /\ last'.res = "ok"
             /\ last'.keys = {k \in Names : RetrieveOn(vaults[1], k) \in Values}
       /\ (InBody("delete") /\ Returned')
          => /\ call.name \notin DOMAIN vaults[1].data
             /\ last'.res = "KeyError"]_vars

\* retrieve has returned the value stored last for one name, on an instance
\* already open that holds another value under the other name
C22_Witness ==
    /\ Returned /\ last.op = "retrieve" /\ last.how = "was_loaded"
    /\ last.res \in Values
    /\ \E k \in Names \ {last.name} :
           /\ k \in DOMAIN vaults[last.v].data
           /\ vaults[last.v].data[k] # last.res

\* C23: on an opened vault, retrieve(name) and delete(name) for a name that
\* is not in the map raise KeyError and leave the instance, the vault file,
\* the temporary file and the sidecar as they were: nothing is written.
C23_MissingNameChangesNothing ==
    (/\ Returned
     /\ last.op \in {"retrieve", "delete"}
     /\ last.how \in {"was_loaded", "loaded"}
     /\ last.name \notin DOMAIN last.inst.data)
    => /\ last.res = "KeyError"
       /\ vaults[last.v] = last.inst
       /\ fs = last.before
       /\ sidecar = last.beforeSidecar
       /\ written = last.wr

\* delete has raised KeyError on an open instance that holds the other name
C23_Witness ==
    /\ Returned /\ last.op = "delete" /\ last.res = "KeyError"
    /\ last.how = "was_loaded"
    /\ DOMAIN vaults[last.v].data # {}
    /\ Complete(vaultFile)

\* C25: between calls, is_locked() is true iff the vault file exists and the
\* instance has not decrypted it: false when no file exists, true on an
\* instance that has not accessed an existing file, still true after a failed
\* open, false after any call that opened or created the vault.
C25_IsLocked ==
    call.pc = "idle" =>
        \A i \in VaultIds : vaults[i].made =>
            /\ ~vaultFile.exists => ~is_locked(i)
            /\ (vaultFile.exists /\ vaults[i] = NewVault(vaults[i].passphrase,
                                                        vaults[i].key_mode = KEY_MODE_DPAPI))
                   => is_locked(i)
            /\ (Returned /\ last.v = i /\ last.how = "load_failed")
                   => is_locked(i)
            /\ (Returned /\ last.v = i /\ last.how \in {"loaded", "created", "was_loaded"})
                   => ~is_locked(i)

\* is_locked() is still true after two failed opens of an existing file
C25_Witness ==
    /\ Returned /\ last.how = "load_failed"
    /\ last.pre.failedOn.exists
    /\ is_locked(last.v)
    /\ last.op = "list_keys"

\* C28: in DPAPI mode the header key_material is the fingerprint of the
\* sidecar blob: after every completed write it is the hash of the sidecar
\* blob, and opening a vault whose sidecar blob does not hash to the header
\* fingerprint fails.
C28_FingerprintDetectsSidecar ==
    /\ (/\ Returned
        /\ (last.op \in WriteOps /\ last.res = "ok") \/ last.how = "created"
        /\ written.exists
        /\ written.img.key_mode = KEY_MODE_DPAPI)
       => /\ sidecar.exists /\ ~sidecar.torn
          /\ written.img.key_material = Sha256(sidecar.blob)
    /\ (/\ Returned
        /\ last.how \in {"loaded", "load_failed"}
        /\ Complete(last.before[VaultPath])
        /\ last.before[VaultPath].img.key_mode = KEY_MODE_DPAPI
        /\ last.beforeSidecar.exists /\ ~last.beforeSidecar.torn
        /\ Sha256(last.beforeSidecar.blob) # last.before[VaultPath].img.key_material)
       => /\ last.how = "load_failed"
          /\ last.res \in OpenErrors
          /\ ~vaults[last.v].loaded

\* the header of file f passes the checks of Vault._load and names key_mode
HeaderOf(f, key_mode) ==
    /\ Complete(f)
    /\ f.img.magic = MAGIC /\ f.img.version = VERSION
    /\ f.img.key_mode = key_mode

\* C29: a configuration error changes nothing on disk: without a passphrase,
\* the first access fails with the passphrase error when the vault file is
\* absent (passphrase mode; no file is created) and when it is a passphrase
\* vault (the file is not modified); the first access to a DPAPI vault without
\* DPAPI fails and leaves the file alone; the map stays unloaded each time.
C29_ConfigErrorsChangeNothing ==
    (Returned /\ ~last.pre.loaded)
    => LET f == last.before[VaultPath]
           unchanged == /\ fs = last.before
                        /\ sidecar = last.beforeSidecar
                        /\ written = last.wr
                        /\ ~vaults[last.v].loaded
       IN /\ (/\ last.pre.passphrase = NoPass
              /\ ~f.exists
              /\ last.pre.key_mode = KEY_MODE_PBKDF2)
             => last.res = "no_passphrase" /\ unchanged /\ ~vaultFile.exists
          /\ (last.pre.passphrase = NoPass /\ HeaderOf(f, KEY_MODE_PBKDF2))
             => last.res = "no_passphrase" /\ unchanged
          /\ (~dpapi /\ HeaderOf(f, KEY_MODE_DPAPI))
             => last.res = "no_dpapi" /\ unchanged

\* a store without a passphrase has failed on an existing passphrase vault
C29_Witness ==
    /\ Returned /\ last.op = "store" /\ last.res = "no_passphrase"
    /\ last.how = "load_failed"
    /\ HeaderOf(vaultFile, KEY_MODE_PBKDF2)
    /\ JsonLoads(vaultFile.img.ct.pt) # EmptyMap

\* what a new Vault over the files as they are now, with the passphrase of
\* the instance in the call and the platform of the key mode in the header,
\* gets from _load
OpenedNow ==
    LoadResult(NewVault(call.inst.passphrase, vaultFile.img.key_mode = KEY_MODE_DPAPI),
               vaultFile, sidecar, vaultFile.img.key_mode = KEY_MODE_DPAPI)

\* the map the call in progress leaves when it returns
MapAfterCall ==
    IF call.op = "store" THEN StoreInto(call.inst.data, call.name, call.value)
    ELSE IF call.op = "delete" THEN DeleteFrom(call.inst.data, call.name)
    ELSE call.inst.data

\* C36: at every point of a store, delete or rotate_key, in either key mode,
\* a new instance over the files as they are opens the vault and holds the
\* whole map from before the call or the whole map the call leaves: the key
\* recovered from the header and the passphrase, or from the sidecar, is the
\* key of the ciphertext at the vault path.
C36_CrashRecoverable ==
    (/\ call.pc \in {"body", "protect", "protect_write", "save", "write"}
     /\ call.after = "return"
     /\ call.op \in WriteOps
     /\ vaultFile.exists)
    => /\ OpenedNow.err = ""
       /\ OpenedNow.v.data \in {call.inst.data, MapAfterCall}

\* the credential map in the image of file f
MapIn(f) == JsonLoads(f.img.ct.pt)

\* C37: with two Vault instances open on the same file, a store or delete of
\* one name through either instance leaves every other credential of the
\* file in the file, retrievable by a new instance.
C37_NoLostUpdate ==
    (/\ Returned
     /\ last.op \in {"store", "delete"} /\ last.res = "ok"
     /\ last.before[VaultPath].exists)
    => \A k \in DOMAIN MapIn(last.before[VaultPath]) \ {last.name} :
           /\ k \in DOMAIN MapIn(vaultFile)
           /\ RetrieveOnNewInstance(vaults[last.v].passphrase, k)
                  = MapIn(last.before[VaultPath])[k]

\* C38: a call that has to open a vault file whose key_mode byte is neither
\* 0 nor 1 fails, and every image the vault puts at the vault path carries
\* key_mode 0 or 1.
C38_KeyModeDefined ==
    /\ (/\ Returned
        /\ last.how \in {"loaded", "load_failed"}
        /\ last.before[VaultPath].img.key_mode
               \notin {KEY_MODE_DPAPI, KEY_MODE_PBKDF2})
       => last.how = "load_failed" /\ last.res \in OpenErrors
    /\ written.exists
       => written.img.key_mode \in {KEY_MODE_DPAPI, KEY_MODE_PBKDF2}

\* ========================================================================
\* security/identity.py
\* ========================================================================
\* A string is a sequence of code points, a byte string a sequence of 0..255.
DEFAULT_TOKEN_TTL == 300
NONCE_STORE_TTL == 86400
\* TOKEN_VERSION = "1"
TOKEN_VERSION == <<49>>

Colon == 58
Pipe == 124
Digits == 48..57
HexDigits == <<48, 49, 50, 51, 52, 53, 54, 55, 56, 57, 97, 98, 99, 100, 101, 102>>
\* the URL-safe base64 alphabet: A-Z a-z 0-9 - _
B64Alphabet ==
    [i \in 1..26 |-> 64 + i] \o [i \in 1..26 |-> 96 + i] \o [i \in 1..10 |-> 47 + i]
    \o <<45, 95>>
\* "+" and "/" are accepted by urlsafe_b64decode as well
B64DataChars == {B64Alphabet[i] : i \in 1..64} \cup {43, 47}
B64Index(c) ==
    IF c = 43 THEN 62 ELSE IF c = 47 THEN 63
    ELSE (CHOOSE i \in 1..64 : B64Alphabet[i] = c) - 1

\* str.split(sep)
RECURSIVE Split(_, _)
Split(str, sep) ==
    IF \A i \in 1..Len(str) : str[i] # sep THEN <<str>>
    ELSE LET i == CHOOSE j \in 1..Len(str) :
                     str[j] = sep /\ \A k \in 1..(j - 1) : str[k] # sep
         IN <<SubSeq(str, 1, i - 1)>> \o Split(SubSeq(str, i + 1, Len(str)), sep)

\* sep.join(parts)
RECURSIVE Join(_, _)
Join(parts, sep) ==
    IF Len(parts) = 0 THEN <<>>
    ELSE IF Len(parts) = 1 THEN parts[1]
    ELSE parts[1] \o <<sep>> \o Join(Tail(parts), sep)

\* str(n) for n >= 0
RECURSIVE IntToStr(_)
IntToStr(n) == IF n < 10 THEN <<48 + n>> ELSE IntToStr(n \div 10) \o <<48 + (n % 10)>>

RECURSIVE DigitsValue(_)
DigitsValue(str) ==
    IF Len(str) = 0 THEN 0
    ELSE 10 * DigitsValue(SubSeq(str, 1, Len(str) - 1)) + (str[Len(str)] - 48)

\* int(str) on strings of digits, "-" and other printable characters: the
\* value, or ValueError
PyInt(str) ==
    IF Len(str) > 0 /\ \A i \in 1..Len(str) : str[i] \in Digits
    THEN [err |-> "", n |-> DigitsValue(str)]
    ELSE IF Len(str) > 1 /\ str[1] = 45 /\ \A i \in 2..Len(str) : str[i] \in Digits
    THEN [err |-> "", n |-> 0 - DigitsValue(Tail(str))]
    ELSE [err |-> "ValueError", n |-> 0]

\* s.encode("utf-8"), code points below 2048
RECURSIVE Utf8Encode(_)
Utf8Encode(str) ==
    IF Len(str) = 0 THEN <<>>
    ELSE (IF str[1] < 128 THEN <<str[1]>>
          ELSE <<192 + (str[1] \div 64), 128 + (str[1] % 64)>>)
         \o Utf8Encode(Tail(str))

\* b.decode("utf-8") : the string, or UnicodeDecodeError (a ValueError);
\* sequences of three and four bytes are not modelled
RECURSIVE Utf8Decode(_)
Utf8Decode(b) ==
    IF Len(b) = 0 THEN [err |-> "", s |-> <<>>]
    ELSE IF b[1] < 128
    THEN LET r == Utf8Decode(Tail(b)) IN [err |-> r.err, s |-> <<b[1]>> \o r.s]
    ELSE IF b[1] \in 194..223 /\ Len(b) >= 2 /\ b[2] \in 128..191
    THEN LET r == Utf8Decode(SubSeq(b, 3, Len(b)))
         IN [err |-> r.err, s |-> <<(b[1] - 192) * 64 + (b[2] - 128)>> \o r.s]
    ELSE [err |-> "ValueError", s |-> <<>>]

\* base64.urlsafe_b64encode(b) without its "=" padding
RECURSIVE B64Encode(_)
B64Encode(b) ==
    IF Len(b) = 0 THEN <<>>
    ELSE IF Len(b) = 1
    THEN <<B64Alphabet[(b[1] \div 4) + 1], B64Alphabet[((b[1] % 4) * 16) + 1]>>
    ELSE IF Len(b) = 2
    THEN <<B64Alphabet[(b[1] \div 4) + 1],
           B64Alphabet[((b[1] % 4) * 16 + (b[2] \div 16)) + 1],
           B64Alphabet[((b[2] % 16) * 4) + 1]>>
    ELSE <<B64Alphabet[(b[1] \div 4) + 1],
           B64Alphabet[((b[1] % 4) * 16 + (b[2] \div 16)) + 1],
           B64Alphabet[((b[2] % 16) * 4 + (b[3] \div 64)) + 1],
           B64Alphabet[(b[3] % 64) + 1]>>
         \o B64Encode(SubSeq(b, 4, Len(b)))

\* the bytes of a sequence of base64 digits (values 0..63)
RECURSIVE B64Bytes(_)
B64Bytes(d) ==
    IF Len(d) < 2 THEN <<>>
    ELSE IF Len(d) = 2 THEN <<d[1] * 4 + (d[2] \div 16)>>
    ELSE IF Len(d) = 3
    THEN <<d[1] * 4 + (d[2] \div 16), (d[2] % 16) * 16 + (d[3] \div 4)>>
    ELSE <<d[1] * 4 + (d[2] \div 16), (d[2] % 16) * 16 + (d[3] \div 4),
           (d[3] % 4) * 64 + d[4]>>
         \o B64Bytes(SubSeq(d, 5, Len(d)))

\* base64.urlsafe_b64decode(s + "=" * pads) for s without "=": characters
\* outside the alphabet are skipped; the bytes, or binascii.Error / ValueError
B64Decode(str, pads) ==
    LET IsData(c) == c \in B64DataChars
        data == SelectSeq(str, IsData)
        d == Len(data)
    IN IF \E i \in 1..Len(str) : str[i] >= 128 THEN [err |-> "ValueError", b |-> <<>>]
       ELSE IF d % 4 = 1 \/ (d % 4 = 2 /\ pads < 2) \/ (d % 4 = 3 /\ pads < 1)
       THEN [err |-> "ValueError", b |-> <<>>]
       ELSE [err |-> "", b |-> B64Bytes([i \in 1..d |-> B64Index(data[i])])]

\* _b64enc
b64enc(str) == B64Encode(Utf8Encode(str))

\* _b64dec : the string, or the error raised
b64dec(str) ==
    LET padding == 4 - (Len(str) % 4)
        r == B64Decode(str, IF padding # 4 THEN padding ELSE 0)
    IN IF r.err # "" THEN [err |-> r.err, s |-> <<>>] ELSE Utf8Decode(r.b)

\* two lower-case hexadecimal digits
HexByte(n) == <<HexDigits[(n \div 16) + 1], HexDigits[(n % 16) + 1]>>

RECURSIVE HexBytes(_)
HexBytes(b) == IF Len(b) = 0 THEN <<>> ELSE HexByte(b[1]) \o HexBytes(Tail(b))

\* hmac.new(key, message, sha256).hexdigest() : HMAC as an injective function
\* of the key (a number below 256) and of the message
HmacHex(key, bytes) == HexByte(key) \o HexBytes(bytes)

\* IdentityManager._sign
sign(key, message) == HmacHex(key, Utf8Encode(message))

\* IdentityManager._make_payload
make_payload(version, peer_id, issued_at, nonce) ==
    Join(<<version, peer_id, issued_at, nonce>>, Pipe)

\* hmac.compare_digest(a, b) on str : TypeError on a non-ASCII character
compare_digest_always_equal(a, b) == "equal"
compare_digest(a, b) ==
    IF \E i \in 1..Len(a) : a[i] >= 128 THEN "TypeError"
    ELSE IF \E i \in 1..Len(b) : b[i] >= 128 THEN "TypeError"
    ELSE IF a = b THEN "equal" ELSE "different"

\* ------------------------------------------------------------------------
\* IdentityManager : state
\* ------------------------------------------------------------------------
SIGNING_KEY_BYTES == 32

\* values of the token_ttl parameter: the default, and one longer than the
\* retention of used nonces
LongTokenTtl == NONCE_STORE_TTL + 1
TokenTtls == {DEFAULT_TOKEN_TTL, LongTokenTtl}

\* values time.time() takes
Times == {0, DEFAULT_TOKEN_TTL - 1, DEFAULT_TOKEN_TTL, DEFAULT_TOKEN_TTL + 1,
          LongTokenTtl}

\* peer ids: "", "a", "a:7", "a|7"
PeerIds == {<<>>, <<97>>, <<97, Colon, 55>>, <<97, Pipe, 55>>}

\* secrets.token_hex : the r-th value drawn
TokenHex(r) == HexByte(r)

\* the file signing.key after write_bytes(key), and after a write_bytes that
\* stopped before the last byte
KeyFileOf(key) == [exists |-> TRUE, key |-> key, len |-> SIGNING_KEY_BYTES]
TornKeyFile(key) == [exists |-> TRUE, key |-> key, len |-> SIGNING_KEY_BYTES - 1]

\* JSON values of allowlist.json: a string, or a value that is not a string
JsonString(str) == [json |-> "string", s |-> str]
JsonNumber == [json |-> "number", s |-> <<>>]

\* the file allowlist.json after write_text(json.dumps(allowlist)), and after
\* a write_text that stopped before the closing brace
AllowFileOf(allowlist) ==
    [exists |-> TRUE, complete |-> TRUE,
     data |-> [p \in DOMAIN allowlist |-> JsonString(allowlist[p])]]
TornAllowFile(allowlist) == [AllowFileOf(allowlist) EXCEPT !.complete = FALSE]

\* f"allow:{peer_id}"
AllowMessage(peer_id) == <<97, 108, 108, 111, 119, Colon>> \o peer_id

\* hmac.compare_digest(self._sign(f"allow:{pid}"), sig) on a JSON value
SignatureCheck(key, peer_id, value) ==
    IF value.json # "string" THEN "TypeError"
    ELSE compare_digest(sign(key, AllowMessage(peer_id)), value.s)

\* IdentityManager._load_allowlist : the entries whose signature verifies;
\* nothing when json.loads or a comparison raises
load_allowlist_unverified(key, file) ==
    IF ~file.exists \/ ~file.complete THEN EmptyMap
    ELSE [p \in DOMAIN file.data |-> file.data[p].s]
load_allowlist(key, file) ==
    IF ~file.exists \/ ~file.complete THEN EmptyMap
    ELSE IF \E q \in DOMAIN file.data :
                SignatureCheck(key, q, file.data[q]) = "TypeError"
    THEN EmptyMap
    ELSE [p \in {q \in DOMAIN file.data :
                    SignatureCheck(key, q, file.data[q]) = "equal"} |->
            file.data[p].s]

\* IdentityManager.is_peer_allowed : "True", "False", or the error raised
PeerAllowed(m, peer_id) ==
    IF peer_id \notin DOMAIN m.allowlist THEN "False"
    ELSE LET cmp == compare_digest(sign(m.signing_key, AllowMessage(peer_id)),
                                   m.allowlist[peer_id])
         IN IF cmp = "TypeError" THEN "TypeError"
            ELSE IF cmp = "equal" THEN "True" ELSE "False"

\* IdentityManager.list_allowed_peers
AllowedPeers(m) ==
    IF \E p \in DOMAIN m.allowlist : PeerAllowed(m, p) = "TypeError"
    THEN [err |-> "TypeError", peers |-> {}]
    ELSE [err |-> "", peers |-> {p \in DOMAIN m.allowlist : PeerAllowed(m, p) = "True"}]

\* IdentityManager._load_or_create_signing_key : a new key is needed
NeedsKey_always(file) == TRUE
NeedsKey(file) == ~(file.exists /\ file.len = SIGNING_KEY_BYTES)

\* IdentityManager.__init__ on the files as they are
NewManager(ttl, key) ==
    [made |-> TRUE, token_ttl |-> ttl, signing_key |-> key,
     nonce_store |-> EmptyMap, allowlist |-> load_allowlist(key, allowFile)]

\* what an IdentityManager constructed now on the directory would report
NewInstance ==
    NewManager(DEFAULT_TOKEN_TTL,
               IF NeedsKey(keyFile) THEN keysMade + 1 ELSE keyFile.key)
NewInstanceAllowed == AllowedPeers(NewInstance).peers

IdentityNew(ttl) ==
    /\ ~idm.made
    /\ LET create == NeedsKey(keyFile)
           key == IF create THEN keysMade + 1 ELSE keyFile.key
       IN /\ keysMade' = IF create THEN keysMade + 1 ELSE keysMade
          /\ keyFile' = IF create THEN KeyFileOf(key) ELSE keyFile
          /\ idm' = NewManager(ttl, key)
          /\ allowRef' = AllowedPeers(NewManager(ttl, key)).peers
    /\ idlast' = [op |-> "__init__"]
    /\ accepted' = EmptyMap
    /\ tried' = {}
    /\ UNCHANGED <<vaultVars, channelVars, allowFile, now, issued, idcrashes, idtampers>>

\* the process ends; the configuration directory stays
IdentityRestart ==
    /\ idm.made
    /\ idm' = NoManager
    /\ idlast' = NoCall
    /\ accepted' = EmptyMap
    /\ tried' = {}
    /\ UNCHANGED <<vaultVars, channelVars, keyFile, allowFile, now, issued, keysMade, allowRef,
                   idcrashes, idtampers>>

\* the wall clock takes another value
SetClock(t) ==
    /\ t # now
    /\ now' = t
    /\ idlast' = NoCall
    /\ UNCHANGED <<vaultVars, channelVars, idm, keyFile, allowFile, issued, accepted, tried, keysMade,
                   allowRef, idcrashes, idtampers>>

\* ------------------------------------------------------------------------
\* IdentityManager : pairing tokens
\* ------------------------------------------------------------------------
\* IdentityManager.create_pairing_token
TokenFor(key, peer_id, t, r) ==
    LET issued_at == IntToStr(t)
        nonce == TokenHex(r)
        payload == make_payload(TOKEN_VERSION, peer_id, issued_at, nonce)
        signature == sign(key, payload)
    IN Join(<<TOKEN_VERSION, b64enc(peer_id), issued_at, nonce, signature>>, Colon)

\* create_pairing_token that enters the nonce in the replay ledger at issuance
create_pairing_token_records(peer_id) ==
    /\ idm.made
    /\ Len(issued) < MaxTokens
    /\ LET token == TokenFor(idm.signing_key, peer_id, now, Len(issued) + 1)
       IN /\ issued' = Append(issued, [token |-> token, peer |-> peer_id,
                                       key |-> idm.signing_key, gen |-> keysMade])
          /\ idm' = [idm EXCEPT !.nonce_store =
                        [n \in DOMAIN @ \cup {TokenHex(Len(issued) + 1)} |->
                            now + NONCE_STORE_TTL]]
          /\ idlast' = [op |-> "create", token |-> token,
                        res |-> [kind |-> "ok", peer |-> peer_id],
                        unused |-> TRUE, first |-> TRUE]
    /\ UNCHANGED <<vaultVars, channelVars, keyFile, allowFile, now, accepted, tried, keysMade,
                   allowRef, idcrashes, idtampers>>

\* IdentityManager.create_pairing_token
create_pairing_token(peer_id) ==
    /\ idm.made
    /\ Len(issued) < MaxTokens
    /\ LET token == TokenFor(idm.signing_key, peer_id, now, Len(issued) + 1)
       IN /\ issued' = Append(issued, [token |-> token, peer |-> peer_id,
                                       key |-> idm.signing_key, gen |-> keysMade])
          /\ idlast' = [op |-> "create", token |-> token,
                        res |-> [kind |-> "ok", peer |-> peer_id],
                        unused |-> TRUE, first |-> TRUE]
    /\ UNCHANGED <<vaultVars, channelVars, idm, keyFile, allowFile, now, accepted, tried, keysMade,
                   allowRef, idcrashes, idtampers>>

\* the test of verify_pairing_token on the age of the token
Expired_future_accepted(age, ttl) == age > ttl
Expired(age, ttl) == age < 0 \/ age > ttl

\* IdentityManager._evict_expired_nonces
evict_expired_nonces(nonce_store, t) ==
    [n \in {x \in DOMAIN nonce_store : nonce_store[x] > t} |-> nonce_store[n]]

\* a failing verify_pairing_token that empties the ledger
Raise_clears_ledger(kind, nonce_store) ==
    [res |-> [kind |-> kind, peer |-> <<>>], nonce_store |-> EmptyMap]

\* raise : the outcome of a call that fails, and the ledger it leaves
Raise(kind, nonce_store) ==
    [res |-> [kind |-> kind, peer |-> <<>>], nonce_store |-> nonce_store]

\* verify_pairing_token that keeps a used nonce for the token TTL
VerifyResult_ttl_retention(m, token, t) ==
    LET parts == Split(token, Colon)
    IN IF Len(parts) # 5 THEN Raise("Malformed", m.nonce_store)
       ELSE IF parts[1] # TOKEN_VERSION THEN Raise("Malformed", m.nonce_store)
       ELSE LET dec == b64dec(parts[2])
                expected == sign(m.signing_key,
                                 make_payload(parts[1], dec.s, parts[3], parts[4]))
                cmp == compare_digest(expected, parts[5])
                issued_at == PyInt(parts[3])
                age == t - issued_at.n
                evicted == evict_expired_nonces(m.nonce_store, t)
            IN IF dec.err # "" THEN Raise(dec.err, m.nonce_store)
               ELSE IF cmp = "TypeError" THEN Raise("TypeError", m.nonce_store)
               ELSE IF cmp # "equal" THEN Raise("InvalidSignature", m.nonce_store)
               ELSE IF issued_at.err # "" THEN Raise(issued_at.err, m.nonce_store)
               ELSE IF Expired(age, m.token_ttl) THEN Raise("Expired", m.nonce_store)
               ELSE IF parts[4] \in DOMAIN evicted THEN Raise("Replayed", evicted)
               ELSE [res |-> [kind |-> "ok", peer |-> dec.s],
                     nonce_store |-> [n \in DOMAIN evicted \cup {parts[4]} |->
                                  IF n = parts[4] THEN t + m.token_ttl
                                  ELSE evicted[n]]]

\* verify_pairing_token that looks the nonce up before it tests the age
VerifyResult_replay_first(m, token, t) ==
    LET parts == Split(token, Colon)
    IN IF Len(parts) # 5 THEN Raise("Malformed", m.nonce_store)
       ELSE IF parts[1] # TOKEN_VERSION THEN Raise("Malformed", m.nonce_store)
       ELSE LET dec == b64dec(parts[2])
                expected == sign(m.signing_key,
                                 make_payload(parts[1], dec.s, parts[3], parts[4]))
                cmp == compare_digest(expected, parts[5])
                issued_at == PyInt(parts[3])
                age == t - issued_at.n
                evicted == evict_expired_nonces(m.nonce_store, t)
            IN IF dec.err # "" THEN Raise(dec.err, m.nonce_store)
               ELSE IF cmp = "TypeError" THEN Raise("TypeError", m.nonce_store)
               ELSE IF cmp # "equal" THEN Raise("InvalidSignature", m.nonce_store)
               ELSE IF parts[4] \in DOMAIN evicted THEN Raise("Replayed", evicted)
               ELSE IF issued_at.err # "" THEN Raise(issued_at.err, evicted)
               ELSE IF Expired(age, m.token_ttl) THEN Raise("Expired", evicted)
               ELSE [res |-> [kind |-> "ok", peer |-> dec.s],
                     nonce_store |-> [n \in DOMAIN evicted \cup {parts[4]} |->
                                  IF n = parts[4] THEN t + NONCE_STORE_TTL
                                  ELSE evicted[n]]]

\* IdentityManager.verify_pairing_token : what it returns or raises, and the
\* nonce store it leaves
VerifyResult(m, token, t) ==
    LET parts == Split(token, Colon)
    IN IF Len(parts) # 5 THEN Raise("Malformed", m.nonce_store)
       ELSE IF parts[1] # TOKEN_VERSION THEN Raise("Malformed", m.nonce_store)
       ELSE LET dec == b64dec(parts[2])
                expected == sign(m.signing_key,
                                 make_payload(parts[1], dec.s, parts[3], parts[4]))
                cmp == compare_digest(expected, parts[5])
                issued_at == PyInt(parts[3])
                age == t - issued_at.n
                evicted == evict_expired_nonces(m.nonce_store, t)
            IN IF dec.err # "" THEN Raise(dec.err, m.nonce_store)
               ELSE IF cmp = "TypeError" THEN Raise("TypeError", m.nonce_store)
               ELSE IF cmp # "equal" THEN Raise("InvalidSignature", m.nonce_store)
               ELSE IF issued_at.err # "" THEN Raise(issued_at.err, m.nonce_store)
               ELSE IF Expired(age, m.token_ttl) THEN Raise("Expired", m.nonce_store)
               ELSE IF parts[4] \in DOMAIN evicted THEN Raise("Replayed", evicted)
               ELSE [res |-> [kind |-> "ok", peer |-> dec.s],
                     nonce_store |-> [n \in DOMAIN evicted \cup {parts[4]} |->
                                  IF n = parts[4] THEN t + NONCE_STORE_TTL
                                  ELSE evicted[n]]]

\* the nonce field of a token of five fields
NonceOf(token) == Split(token, Colon)[4]

verify_pairing_token(token) ==
    /\ idm.made
    /\ LET r == VerifyResult(idm, token, now)
           nonce == NonceOf(token)
           unused == Len(Split(token, Colon)) = 5 => nonce \notin DOMAIN accepted
       IN /\ idm' = [idm EXCEPT !.nonce_store = r.nonce_store]
          /\ idlast' = [op |-> "verify", token |-> token, res |-> r.res,
                        unused |-> unused,
                        first |-> \A i \in tried : issued[i].token # token]
          /\ accepted' =
               IF r.res.kind # "ok" THEN accepted
               ELSE [n \in DOMAIN accepted \cup {nonce} |->
                       IF n # nonce THEN accepted[n]
                       ELSE IF n \in DOMAIN accepted
                       THEN [accepted[n] EXCEPT !.count = 2]
                       ELSE [count |-> 1,
                             last_second |->
                                 now - PyInt(Split(token, Colon)[3]).n
                                     = idm.token_ttl - 1]]
          /\ tried' = tried \cup {i \in 1..Len(issued) : issued[i].token = token}
    /\ UNCHANGED <<vaultVars, channelVars, keyFile, allowFile, now, issued, keysMade, allowRef,
                   idcrashes, idtampers>>

\* IdentityManager.rotate_signing_key : the instance after it
RotateManager_keeps_key(m, key) ==
    [m EXCEPT !.allowlist = [p \in DOMAIN m.allowlist |-> sign(key, AllowMessage(p))]]
RotateManager_keeps_signatures(m, key) == [m EXCEPT !.signing_key = key]
RotateManager(m, key) ==
    [m EXCEPT !.signing_key = key,
              !.allowlist = [p \in DOMAIN m.allowlist |-> sign(key, AllowMessage(p))]]

\* IdentityManager.rotate_signing_key, with _save_signing_key and
\* _save_allowlist
rotate_signing_key ==
    /\ idm.made
    /\ keysMade < MaxKeys
    /\ LET key == keysMade + 1
       IN /\ keysMade' = key
          /\ keyFile' = KeyFileOf(key)
          /\ idm' = RotateManager(idm, key)
          /\ allowFile' = AllowFileOf(RotateManager(idm, key).allowlist)
    /\ idlast' = [op |-> "rotate_signing_key", token |-> <<>>,
                  res |-> [kind |-> "ok", peer |-> <<>>],
                  unused |-> TRUE, first |-> TRUE,
                  before |-> AllowedPeers(idm).peers]
    /\ UNCHANGED <<vaultVars, channelVars, now, issued, accepted, tried, allowRef, idcrashes,
                   idtampers>>

\* ------------------------------------------------------------------------
\* IdentityManager : the strings a peer presents
\* ------------------------------------------------------------------------
\* a string with its last character replaced
WithLast(str, c) == [str EXCEPT ![Len(str)] = c]
OtherHex(c) == IF c = 48 THEN 49 ELSE 48

\* another base64 spelling of the same bytes: the unused low bits of the last
\* digit set, or a character outside the alphabet appended
NonCanonical(b64) ==
    IF Len(b64) % 4 \in {2, 3}
    THEN WithLast(b64, B64Alphabet[B64Index(b64[Len(b64)]) + 2])
    ELSE b64 \o <<46>>

Mutations == {"same", "sig_hex", "sig_non_ascii", "peer_non_canonical",
              "peer_short", "peer_bad_utf8", "issued_at", "nonce",
              "four_fields", "six_fields", "version"}

\* the fields of a token for a peer_id "p|q" set out again so that the
\* payload f"{version}|{peer_id}|{issued_at}|{nonce}" is the same string:
\* peer_id "p", issued_at "q", nonce f"{issued_at}|{nonce}"
Resplit(token) ==
    LET f == Split(token, Colon)
        peer == Split(b64dec(f[2]).s, Pipe)
    IN IF Len(peer) # 2 THEN token
       ELSE Join(<<f[1], b64enc(peer[1]), peer[2],
                   Join(<<f[3], f[4]>>, Pipe), f[5]>>, Colon)

\* a token derived from an issued one without the signing key
Mutate(token, how) ==
    LET f == Split(token, Colon)
        With(i, x) == Join([f EXCEPT ![i] = x], Colon)
    IN CASE how = "same" -> token
         [] how = "sig_hex" -> With(5, WithLast(f[5], OtherHex(f[5][Len(f[5])])))
         [] how = "sig_non_ascii" -> With(5, WithLast(f[5], 233))
         [] how = "peer_non_canonical" -> With(2, NonCanonical(f[2]))
         [] how = "peer_short" -> With(2, <<65>>)
         [] how = "peer_bad_utf8" -> With(2, <<95, 119>>)
         [] how = "issued_at" -> With(3, f[3] \o <<48>>)
         [] how = "nonce" -> With(4, WithLast(f[4], OtherHex(f[4][Len(f[4])])))
         [] how = "four_fields" -> Join(SubSeq(f, 1, 4), Colon)
         [] how = "six_fields" -> Join(f \o <<f[5]>>, Colon)
         [] how = "version" -> With(1, <<50>>)
         [] how = "resplit" -> Resplit(token)

\* what a peer presents: the empty string, or a string derived from the i-th
\* issued token
PresentedToken(i, how) ==
    IF i = 0 \/ i > Len(issued) THEN <<>> ELSE Mutate(issued[i].token, how)

\* ------------------------------------------------------------------------
\* IdentityManager : allowlist
\* ------------------------------------------------------------------------
\* peer ids given to the allowlist operations: "a", "a|7"
AllowPeerIds == {<<97>>, <<97, Pipe, 55>>}

\* self._allowlist[peer_id] = sig ; del self._allowlist[peer_id]
AllowIn_drops_others(m, peer_id) ==
    [m EXCEPT !.allowlist =
        [p \in {peer_id} |-> sign(m.signing_key, AllowMessage(peer_id))]]
AllowIn(m, peer_id) ==
    [m EXCEPT !.allowlist =
        [p \in DOMAIN m.allowlist \cup {peer_id} |->
            IF p = peer_id THEN sign(m.signing_key, AllowMessage(peer_id))
            ELSE m.allowlist[p]]]
RevokeIn(m, peer_id) ==
    [m EXCEPT !.allowlist = [p \in DOMAIN m.allowlist \ {peer_id} |-> m.allowlist[p]]]

AllowlistCall(op, peer_id, res) == [op |-> op, peer |-> peer_id, res |-> res]

\* IdentityManager.allow_peer, with _save_allowlist
allow_peer(peer_id) ==
    /\ idm.made
    /\ idm' = AllowIn(idm, peer_id)
    /\ allowFile' = AllowFileOf(AllowIn(idm, peer_id).allowlist)
    /\ allowRef' = allowRef \cup {peer_id}
    /\ idlast' = AllowlistCall("allow_peer", peer_id, "ok")
    /\ UNCHANGED <<vaultVars, channelVars, keyFile, now, issued, accepted, tried, keysMade,
                   idcrashes, idtampers>>

\* revoke_peer that ignores a missing peer (self._allowlist.pop(peer_id, None))
revoke_peer_ignores_missing(peer_id) ==
    /\ idm.made
    /\ idm' = RevokeIn(idm, peer_id)
    /\ allowFile' = AllowFileOf(RevokeIn(idm, peer_id).allowlist)
    /\ allowRef' = allowRef \ {peer_id}
    /\ idlast' = AllowlistCall("revoke_peer", peer_id, "ok")
    /\ UNCHANGED <<vaultVars, channelVars, keyFile, now, issued, accepted, tried, keysMade,
                   idcrashes, idtampers>>

\* IdentityManager.revoke_peer, with _save_allowlist
revoke_peer(peer_id) ==
    /\ idm.made
    /\ IF peer_id \notin DOMAIN idm.allowlist
       THEN /\ idlast' = AllowlistCall("revoke_peer", peer_id, "KeyError")
            /\ UNCHANGED <<idm, allowFile, allowRef>>
       ELSE /\ idm' = RevokeIn(idm, peer_id)
            /\ allowFile' = AllowFileOf(RevokeIn(idm, peer_id).allowlist)
            /\ allowRef' = allowRef \ {peer_id}
            /\ idlast' = AllowlistCall("revoke_peer", peer_id, "ok")
    /\ UNCHANGED <<vaultVars, channelVars, keyFile, now, issued, accepted, tried, keysMade,
                   idcrashes, idtampers>>

\* IdentityManager.is_peer_allowed
is_peer_allowed(peer_id) ==
    /\ idm.made
    /\ idlast' = AllowlistCall("is_peer_allowed", peer_id, PeerAllowed(idm, peer_id))
    /\ UNCHANGED <<vaultVars, channelVars, idm, keyFile, allowFile, now, issued, accepted, tried,
                   keysMade, allowRef, idcrashes, idtampers>>

\* IdentityManager.list_allowed_peers
list_allowed_peers ==
    /\ idm.made
    /\ idlast' = AllowlistCall("list_allowed_peers", <<>>, AllowedPeers(idm))
    /\ UNCHANGED <<vaultVars, channelVars, idm, keyFile, allowFile, now, issued, accepted, tried,
                   keysMade, allowRef, idcrashes, idtampers>>

\* ------------------------------------------------------------------------
\* IdentityManager : the process stops in the middle of a call
\* ------------------------------------------------------------------------
\* the instance is gone; the files are as the call left them
Stopped(op, before) ==
    /\ idcrashes < MaxCrashes
    /\ idcrashes' = idcrashes + 1
    /\ idm' = NoManager
    /\ idlast' = [op |-> "stopped", token |-> <<>>,
                  res |-> [kind |-> op, peer |-> <<>>],
                  unused |-> TRUE, first |-> TRUE, before |-> before]
    /\ accepted' = EmptyMap
    /\ tried' = {}
    /\ UNCHANGED <<vaultVars, channelVars, now, issued, allowRef, idtampers>>

\* _save_signing_key stops inside write_bytes, during __init__
IdentityNew_stops ==
    /\ ~idm.made
    /\ NeedsKey(keyFile)
    /\ keysMade' = keysMade + 1
    /\ keyFile' = TornKeyFile(keysMade + 1)
    /\ UNCHANGED allowFile
    /\ Stopped("__init__", NewInstanceAllowed)

\* _save_allowlist stops inside write_text, during allow_peer
allow_peer_stops(peer_id) ==
    /\ idm.made
    /\ allowFile' = TornAllowFile(AllowIn(idm, peer_id).allowlist)
    /\ UNCHANGED <<keyFile, keysMade>>
    /\ Stopped("allow_peer", AllowedPeers(idm).peers)

\* _save_allowlist stops inside write_text, during revoke_peer
revoke_peer_stops(peer_id) ==
    /\ idm.made
    /\ peer_id \in DOMAIN idm.allowlist
    /\ allowFile' = TornAllowFile(RevokeIn(idm, peer_id).allowlist)
    /\ UNCHANGED <<keyFile, keysMade>>
    /\ Stopped("revoke_peer", AllowedPeers(idm).peers)

\* rotate_signing_key stops inside the write of signing.key, between the two
\* writes, or inside the write of allowlist.json
rotate_signing_key_stops(at) ==
    /\ idm.made
    /\ keysMade < MaxKeys
    /\ keysMade' = keysMade + 1
    /\ keyFile' = IF at = "key_torn" THEN TornKeyFile(keysMade + 1)
                  ELSE KeyFileOf(keysMade + 1)
    /\ allowFile' = IF at = "allowlist_torn"
                    THEN TornAllowFile(RotateManager(idm, keysMade + 1).allowlist)
                    ELSE allowFile
    /\ Stopped("rotate_signing_key", AllowedPeers(idm).peers)

\* ------------------------------------------------------------------------
\* IdentityManager : somebody else edits allowlist.json
\* ------------------------------------------------------------------------
TamperValues == {"other_hex", "non_ascii", "number"}

\* the value stored for a peer is replaced by another JSON value
TamperedValue(value, how) ==
    IF how = "number" \/ value.json # "string" THEN JsonNumber
    ELSE IF how = "non_ascii" THEN JsonString(WithLast(value.s, 233))
    ELSE JsonString(WithLast(value.s, OtherHex(value.s[Len(value.s)])))

TamperAllowlist(peer_id, how) ==
    /\ idtampers < MaxTampers
    /\ allowFile.exists /\ allowFile.complete
    /\ peer_id \in DOMAIN allowFile.data
    /\ allowFile.data[peer_id] # TamperedValue(allowFile.data[peer_id], how)
    /\ allowFile' = [allowFile EXCEPT
                       !.data[peer_id] = TamperedValue(allowFile.data[peer_id], how)]
    /\ idtampers' = idtampers + 1
    /\ idlast' = NoCall
    /\ UNCHANGED <<vaultVars, channelVars, idm, keyFile, now, issued, accepted, tried, keysMade,
                   allowRef, idcrashes>>

\* ------------------------------------------------------------------------
\* channels/manager.py : ChannelManager
\* ------------------------------------------------------------------------
\* ChannelKind.SMS.value, and the sender ids of inbound messages: "a", "b"
Sms == <<115, 109, 115>>
SenderIds == {<<97>>, <<98>>}

\* f"{msg.channel.value}:{msg.sender.id}"
ChannelPeer(channel, sender) == channel \o <<Colon>> \o sender

\* the peer ids given to the allowlist operations here: "sms:a"
ChannelPeerIds == {ChannelPeer(Sms, <<97>>)}

\* what router.stream produces: nothing, text, or an exception
Replies == {"", "text", "error"}

\* ChannelManager.__init__ with identity = the IdentityManager of the process,
\* or identity = None
ChannelManagerNew(identity) ==
    /\ ~chan.made
    /\ identity => idm.made
    /\ chan' = [made |-> TRUE, identity |-> identity, msgs |-> <<>>]
    /\ UNCHANGED <<vaultVars, identityVars>>

\* _handle_message that schedules the typing indicator before the allowlist
\* check
Handled_typing_before_gate(peer_id, gate, connected, reply) ==
    IF gate \notin {"none", "True"}
    THEN [peer |-> peer_id, gate |-> gate, routed |-> FALSE,
          typing |-> IF connected THEN "scheduled" ELSE "none", reply |-> "none"]
    ELSE [peer |-> peer_id, gate |-> gate, routed |-> TRUE,
          typing |-> IF connected THEN "scheduled" ELSE "none",
          reply |-> IF connected /\ reply # "" THEN "pending" ELSE "none"]

\* ChannelManager._handle_message up to its first await: gate is what
\* is_peer_allowed answered ("none" without an IdentityManager), connected
\* says whether _adapter_for finds an adapter, reply is the router's output
Handled(peer_id, gate, connected, reply) ==
    IF gate \notin {"none", "True"}
    THEN [peer |-> peer_id, gate |-> gate, routed |-> FALSE,
          typing |-> "none", reply |-> "none"]
    ELSE [peer |-> peer_id, gate |-> gate, routed |-> TRUE,
          typing |-> IF connected THEN "scheduled" ELSE "none",
          reply |-> IF connected /\ reply # "" THEN "pending" ELSE "none"]

\* ChannelManager._handle_message
_handle_message(channel, sender, connected, reply) ==
    /\ chan.made
    /\ Len(chan.msgs) < MaxMessages
    /\ LET peer_id == ChannelPeer(channel, sender)
           gate == IF chan.identity THEN PeerAllowed(idm, peer_id) ELSE "none"
       IN chan' = [chan EXCEPT !.msgs =
                      Append(@, Handled(peer_id, gate, connected, reply))]
    /\ UNCHANGED <<vaultVars, identityVars>>

\* the task _safe(adapter.send_typing(msg.chat_id)) runs
send_typing(i) ==
    /\ chan.made
    /\ i <= Len(chan.msgs)
    /\ chan.msgs[i].typing = "scheduled"
    /\ chan' = [chan EXCEPT !.msgs[i].typing = "sent"]
    /\ UNCHANGED <<vaultVars, identityVars>>

\* await adapter.send(out)
send(i) ==
    /\ chan.made
    /\ i <= Len(chan.msgs)
    /\ chan.msgs[i].reply = "pending"
    /\ chan' = [chan EXCEPT !.msgs[i].reply = "sent"]
    /\ UNCHANGED <<vaultVars, identityVars>>

\* ------------------------------------------------------------------------
\* IdentityManager : specifications
\* ------------------------------------------------------------------------
\* the vault plays no part: the process has no DPAPI
InitIdentity == Init /\ ~dpapi

\* one IdentityManager per process, peers that present issued tokens and
\* strings derived from them, a wall clock that is set freely
NextIdentity ==
    \/ \E ttl \in TokenTtls : IdentityNew(ttl)
    \/ \E peer_id \in PeerIds : create_pairing_token(peer_id)
    \/ \E i \in 0..MaxTokens, how \in Mutations :
           verify_pairing_token(PresentedToken(i, how))
    \/ rotate_signing_key
    \/ \E t \in Times : SetClock(t)
    \/ IdentityRestart

SpecIdentity == InitIdentity /\ [][NextIdentity]_vars

\* one IdentityManager, peers that present the tokens they were issued or
\* a token with a changed signature
ExpiryPeerIds == {<<>>, <<97, Colon, 55>>}
NextExpiry ==
    \/ \E ttl \in TokenTtls : IdentityNew(ttl)
    \/ \E peer_id \in ExpiryPeerIds : create_pairing_token(peer_id)
    \/ \E i \in 0..MaxTokens, how \in {"same", "sig_hex"} :
           verify_pairing_token(PresentedToken(i, how))
    \/ \E t \in Times : SetClock(t)

SpecExpiry == InitIdentity /\ [][NextExpiry]_vars

\* one IdentityManager per process that issues tokens, verifies them as
\* issued, rotates its signing key, and is started again
RotateTimes == {0, DEFAULT_TOKEN_TTL}
NextRotate ==
    \/ \E ttl \in {DEFAULT_TOKEN_TTL} : IdentityNew(ttl)
    \/ \E peer_id \in ExpiryPeerIds : create_pairing_token(peer_id)
    \/ \E i \in 1..MaxTokens : verify_pairing_token(PresentedToken(i, "same"))
    \/ rotate_signing_key
    \/ \E t \in RotateTimes : SetClock(t)
    \/ IdentityRestart

SpecRotate == InitIdentity /\ [][NextRotate]_vars

\* one IdentityManager per process that allows peers, issues tokens, verifies
\* them as issued, rotates its signing key, and is started again
NextIssue ==
    \/ \E ttl \in {DEFAULT_TOKEN_TTL} : IdentityNew(ttl)
    \/ \E peer_id \in AllowPeerIds : allow_peer(peer_id)
    \/ \E peer_id \in ExpiryPeerIds : create_pairing_token(peer_id)
    \/ \E i \in 1..MaxTokens : verify_pairing_token(PresentedToken(i, "same"))
    \/ rotate_signing_key
    \/ \E t \in RotateTimes : SetClock(t)
    \/ IdentityRestart

SpecIssue == InitIdentity /\ [][NextIssue]_vars

\* one IdentityManager with the default TTL, peers that present the tokens
\* they were issued or the same fields set out again
NextBinding ==
    \/ \E ttl \in {DEFAULT_TOKEN_TTL} : IdentityNew(ttl)
    \/ \E peer_id \in PeerIds : create_pairing_token(peer_id)
    \/ \E i \in 1..MaxTokens, how \in {"same", "resplit"} :
           verify_pairing_token(PresentedToken(i, how))
    \/ rotate_signing_key
    \/ \E t \in Times : SetClock(t)

SpecBinding == InitIdentity /\ [][NextBinding]_vars

\* one IdentityManager that holds an allowlist, peers that present the
\* tokens they were issued, a token with a changed signature, or a token cut
\* to four fields
NextLedger ==
    \/ \E ttl \in TokenTtls : IdentityNew(ttl)
    \/ \E peer_id \in {<<97>>} : allow_peer(peer_id)
    \/ \E peer_id \in ExpiryPeerIds : create_pairing_token(peer_id)
    \/ \E i \in 1..MaxTokens, how \in {"same", "sig_hex", "four_fields"} :
           verify_pairing_token(PresentedToken(i, how))
    \/ \E t \in Times : SetClock(t)

SpecLedger == InitIdentity /\ [][NextLedger]_vars

\* one IdentityManager whose allowlist changes, and one ChannelManager, with
\* or without it, that handles inbound messages
NextChannel ==
    \/ \E ttl \in {DEFAULT_TOKEN_TTL} : IdentityNew(ttl)
    \/ \E peer_id \in ChannelPeerIds : allow_peer(peer_id)
    \/ \E peer_id \in ChannelPeerIds : revoke_peer(peer_id)
    \/ \E identity \in BOOLEAN : ChannelManagerNew(identity)
    \/ \E sender \in SenderIds, connected \in BOOLEAN, reply \in Replies :
           _handle_message(Sms, sender, connected, reply)
    \/ \E i \in 1..MaxMessages : send_typing(i)
    \/ \E i \in 1..MaxMessages : send(i)

SpecChannel == InitIdentity /\ [][NextChannel]_vars

\* one IdentityManager per process that manages its allowlist and rotates
\* its key, is started again, and somebody who edits allowlist.json
NextAllowlist ==
    \/ \E ttl \in {DEFAULT_TOKEN_TTL} : IdentityNew(ttl)
    \/ \E peer_id \in AllowPeerIds : allow_peer(peer_id)
    \/ \E peer_id \in AllowPeerIds : revoke_peer(peer_id)
    \/ \E peer_id \in AllowPeerIds : is_peer_allowed(peer_id)
    \/ list_allowed_peers
    \/ rotate_signing_key
    \/ IdentityRestart
    \/ \E peer_id \in AllowPeerIds, how \in TamperValues : TamperAllowlist(peer_id, how)

SpecAllowlist == InitIdentity /\ [][NextAllowlist]_vars

\* one IdentityManager per process that manages its allowlist and rotates
\* its key; the process may stop inside a call, and is started again
NextAllowlistCrash ==
    \/ \E ttl \in {DEFAULT_TOKEN_TTL} : IdentityNew(ttl)
    \/ \E peer_id \in AllowPeerIds : allow_peer(peer_id)
    \/ \E peer_id \in AllowPeerIds : revoke_peer(peer_id)
    \/ \E peer_id \in AllowPeerIds : is_peer_allowed(peer_id)
    \/ list_allowed_peers
    \/ rotate_signing_key
    \/ IdentityRestart
    \/ IdentityNew_stops
    \/ \E peer_id \in AllowPeerIds : allow_peer_stops(peer_id)
    \/ \E peer_id \in AllowPeerIds : revoke_peer_stops(peer_id)
    \/ \E at \in {"key_torn", "key_saved", "allowlist_torn"} :
           rotate_signing_key_stops(at)

SpecAllowlistCrash == InitIdentity /\ [][NextAllowlistCrash]_vars

\* ------------------------------------------------------------------------
\* IdentityManager : properties
\* ------------------------------------------------------------------------
\* verify_pairing_token has returned or raised and nothing has happened since
Verified == idlast.op = "verify"

\* the token has five fields, version 1, and its signature field is the HMAC
\* of its other fields under the key
CorrectlySigned(key, token) ==
    LET f == Split(token, Colon)
    IN /\ Len(f) = 5
       /\ f[1] = TOKEN_VERSION
       /\ b64dec(f[2]).err = ""
       /\ f[5] = sign(key, make_payload(f[1], b64dec(f[2]).s, f[3], f[4]))

IssuedAt(token) == PyInt(Split(token, Colon)[3])
InWindow(token) ==
    /\ IssuedAt(token).err = ""
    /\ 0 <= now - IssuedAt(token).n
    /\ now - IssuedAt(token).n <= idm.token_ttl

\* C2: within one IdentityManager instance, whatever the token TTL, at most
\* one verify_pairing_token carrying a given nonce succeeds, and a valid token
\* verified again inside its TTL window fails with Replayed.
C2_SingleUse ==
    /\ \A n \in DOMAIN accepted : accepted[n].count <= 1
    /\ (/\ Verified
        /\ CorrectlySigned(idm.signing_key, idlast.token)
        /\ ~idlast.unused
        /\ InWindow(idlast.token))
       => idlast.res.kind = "Replayed"

\* C3: a token of five fields and version 1 whose signature field is not the
\* HMAC of its other fields under the current key fails with InvalidSignature,
\* whatever its issued_at, the time and the nonce store are.
C3_ForgeryFailsFirst ==
    (/\ Verified
     /\ Len(Split(idlast.token, Colon)) = 5
     /\ Split(idlast.token, Colon)[1] = TOKEN_VERSION
     /\ ~CorrectlySigned(idm.signing_key, idlast.token))
    => idlast.res.kind = "InvalidSignature"

\* C4: a correctly signed token whose nonce this instance has not accepted
\* yet is accepted if and only if 0 <= now - issued_at <= TTL, and fails with
\* Expired otherwise (issued_at in the future included); a token accepted at
\* age TTL - 1 is accepted exactly once.
C4_ExpiryWindow ==
    /\ (/\ Verified
        /\ CorrectlySigned(idm.signing_key, idlast.token)
        /\ IssuedAt(idlast.token).err = ""
        /\ idlast.unused)
       => IF InWindow(idlast.token)
          THEN idlast.res = [kind |-> "ok",
                             peer |-> b64dec(Split(idlast.token, Colon)[2]).s]
          ELSE idlast.res.kind = "Expired"
    /\ \A n \in DOMAIN accepted : accepted[n].last_second => accepted[n].count = 1

\* a correctly signed token not accepted before has just been accepted at age
\* TTL - 1
C4_Witness ==
    /\ Verified
    /\ CorrectlySigned(idm.signing_key, idlast.token)
    /\ idlast.unused
    /\ now - IssuedAt(idlast.token).n = idm.token_ttl - 1
    /\ idlast.res.kind = "ok"
    /\ \E n \in DOMAIN accepted : accepted[n].last_second

\* C5: create_pairing_token returns five colon-separated fields, the first
\* one the version, and the first verify_pairing_token of that string by the
\* same manager within the TTL returns the peer_id it was created for.
C5_TokenRoundTrip ==
    \A i \in 1..Len(issued) :
        /\ Len(Split(issued[i].token, Colon)) = 5
        /\ Split(issued[i].token, Colon)[1] = TOKEN_VERSION
        /\ (/\ Verified
            /\ idlast.token = issued[i].token
            /\ idlast.first
            /\ issued[i].key = idm.signing_key
            /\ InWindow(idlast.token))
           => idlast.res = [kind |-> "ok", peer |-> issued[i].peer]

\* C12: after rotate_signing_key() has returned, every token issued before
\* the rotation fails verify_pairing_token with InvalidSignature, on the
\* rotating instance and on a new instance over the same directory, unused
\* and inside its TTL or not.
C12_RotationInvalidatesTokens ==
    \A i \in 1..Len(issued) :
        (Verified /\ idlast.token = issued[i].token /\ issued[i].gen < keysMade)
        => idlast.res.kind = "InvalidSignature"

\* a token issued before a rotation, unused and inside its TTL, has just been
\* refused
C12_Witness ==
    /\ Verified
    /\ Len(issued) > 0
    /\ idlast.token = issued[1].token
    /\ issued[1].gen < keysMade
    /\ idlast.unused
    /\ InWindow(idlast.token)
    /\ idlast.res.kind = "InvalidSignature"

\* C13: rotate_signing_key() preserves the allowlist: when it has returned,
\* the peers reported allowed are those reported before the rotation, on the
\* rotating instance and on a new instance over the same directory, and every
\* entry, in memory and in the file, is signed under the new key.
C13_RotationPreservesAllowlist ==
    (idm.made /\ idlast.op = "rotate_signing_key")
    => /\ AllowedPeers(idm) = [err |-> "", peers |-> idlast.before]
       /\ \A p \in AllowPeerIds :
              PeerAllowed(idm, p) = IF p \in idlast.before THEN "True" ELSE "False"
       /\ NewInstanceAllowed = idlast.before
       /\ \A p \in AllowPeerIds :
              PeerAllowed(NewInstance, p) =
                  IF p \in idlast.before THEN "True" ELSE "False"
       /\ \A p \in idlast.before :
              /\ idm.allowlist[p] = sign(idm.signing_key, AllowMessage(p))
              /\ allowFile.data[p] = JsonString(sign(keyFile.key, AllowMessage(p)))
       /\ keyFile.key = idm.signing_key

\* a rotation has just returned on an instance that allowed two peers
C13_Witness ==
    /\ idm.made
    /\ idlast.op = "rotate_signing_key"
    /\ idlast.before = AllowPeerIds
    /\ idm.signing_key > 1

\* C14: rotation is atomic with re-signing: when the process has stopped
\* inside rotate_signing_key(), a new IdentityManager on the same directory
\* reports the peers that were allowed before the rotation began, and the
\* signing key on disk and the signatures in the allowlist on disk agree.
C14_RotationAtomic ==
    (~idm.made /\ idlast.op = "stopped" /\ idlast.res.kind = "rotate_signing_key")
    => /\ NewInstanceAllowed = idlast.before
       /\ (allowFile.exists /\ allowFile.complete) =>
              \A p \in DOMAIN allowFile.data :
                  allowFile.data[p] =
                      JsonString(sign(NewInstance.signing_key, AllowMessage(p)))

\* the value stored for peer_id in allowlist.json is not the signature of
\* "allow:" + peer_id under the key
BadEntry(key, peer_id) ==
    /\ allowFile.exists /\ allowFile.complete
    /\ peer_id \in DOMAIN allowFile.data
    /\ allowFile.data[peer_id] # JsonString(sign(key, AllowMessage(peer_id)))

\* C15: when the signature stored for peer p in allowlist.json has been
\* replaced by any other JSON value, constructing an IdentityManager on the
\* directory raises nothing, is_peer_allowed(p) returns False and p is not in
\* list_allowed_peers().
C15_TamperedEntryNotAllowed ==
    (idm.made /\ idlast.op = "__init__")
    => \A p \in AllowPeerIds :
           BadEntry(idm.signing_key, p)
           => /\ PeerAllowed(idm, p) = "False"
              /\ AllowedPeers(idm).err = ""
              /\ p \notin AllowedPeers(idm).peers

\* an instance has just been constructed on a file where the signature of one
\* peer was replaced by a string that is not ASCII, next to an intact entry
C15_Witness ==
    /\ idm.made
    /\ idlast.op = "__init__"
    /\ idtampers > 0
    /\ \E p \in AllowPeerIds :
           /\ BadEntry(idm.signing_key, p)
           /\ allowFile.data[p].json = "string"
           /\ \E k \in 1..Len(allowFile.data[p].s) : allowFile.data[p].s[k] > 127
           /\ PeerAllowed(idm, p) = "False"
    /\ \E q \in AllowPeerIds : q \in DOMAIN allowFile.data /\ ~BadEntry(idm.signing_key, q)

\* the signature the instance holds for peer_id is the HMAC of
\* "allow:" + peer_id under its current signing key
HoldsSignature(m, peer_id) ==
    /\ peer_id \in DOMAIN m.allowlist
    /\ m.allowlist[peer_id] = sign(m.signing_key, AllowMessage(peer_id))

\* C16: in every state of an instance, after construction and after any
\* sequence of allow_peer, revoke_peer and rotate_signing_key,
\* is_peer_allowed(p) is True only if the signature held for p is
\* HMAC(current signing key, "allow:" + p), and list_allowed_peers() is
\* exactly the set of p for which is_peer_allowed(p) is True.
C16_TrustInvariant ==
    idm.made
    => /\ \A p \in AllowPeerIds :
              PeerAllowed(idm, p) = "True" => HoldsSignature(idm, p)
       /\ AllowedPeers(idm) =
              [err |-> "",
               peers |-> {p \in AllowPeerIds : PeerAllowed(idm, p) = "True"}]
       /\ (idlast.op = "is_peer_allowed" /\ idlast.res = "True")
              => HoldsSignature(idm, idlast.peer)
       /\ idlast.op = "list_allowed_peers"
              => idlast.res =
                     [err |-> "",
                      peers |-> {p \in AllowPeerIds : HoldsSignature(idm, p)}]

\* is_peer_allowed has just returned True for one peer of an instance that
\* rotated its key and was constructed on a file where the signature of the
\* other peer had been replaced
C16_Witness ==
    /\ idm.made
    /\ idlast.op = "is_peer_allowed"
    /\ idlast.res = "True"
    /\ idm.signing_key > 1
    /\ idtampers > 0
    /\ \E q \in AllowPeerIds : q \notin DOMAIN idm.allowlist

\* C17: membership follows a reference set: after any sequence of allow_peer
\* and revoke_peer calls on an instance, with rotate_signing_key interleaved,
\* is_peer_allowed(p) is True iff p was allowed when the instance was
\* constructed or by allow_peer, and not revoked since; so allow_peer is
\* idempotent, and allow_peer and revoke_peer change no other peer.
C17_MembershipFollowsReference ==
    idm.made
    => /\ \A p \in AllowPeerIds :
              PeerAllowed(idm, p) = IF p \in allowRef THEN "True" ELSE "False"
       /\ idlast.op = "is_peer_allowed"
              => idlast.res = IF idlast.peer \in allowRef THEN "True" ELSE "False"
       /\ idlast.op = "list_allowed_peers"
              => idlast.res = [err |-> "", peers |-> allowRef]
       /\ (idlast.op = "allow_peer" /\ idlast.res = "ok")
              => idlast.peer \in allowRef
       /\ (idlast.op = "revoke_peer" /\ idlast.res = "ok")
              => idlast.peer \notin allowRef
       /\ (idlast.op = "revoke_peer" /\ idlast.res = "KeyError")
              => idlast.peer \notin allowRef

\* after a rotation, one peer has just been revoked while the other stays
\* allowed
C17_Witness ==
    /\ idm.made
    /\ idm.signing_key > 1
    /\ idlast.op = "revoke_peer"
    /\ idlast.res = "ok"
    /\ \E q \in AllowPeerIds : q # idlast.peer /\ PeerAllowed(idm, q) = "True"

\* C18: durability: after allow_peer(p) has returned a new IdentityManager on
\* the same directory reports p allowed, after revoke_peer(p) has returned it
\* reports p not allowed, and in general the peers a new instance reports are
\* those the old instance reported at its last completed operation.
C18_AllowlistDurable ==
    /\ NewInstanceAllowed = allowRef
    /\ (idm.made /\ idlast.op = "allow_peer" /\ idlast.res = "ok")
           => PeerAllowed(NewInstance, idlast.peer) = "True"
    /\ (idm.made /\ idlast.op = "revoke_peer" /\ idlast.res = "ok")
           => PeerAllowed(NewInstance, idlast.peer) = "False"

\* the peers whose entry an instance discarded when it loaded allowlist.json
Discarded(key, file) ==
    IF ~file.exists \/ ~file.complete THEN {}
    ELSE DOMAIN file.data \ DOMAIN load_allowlist(key, file)

\* C19: an entry of allowlist.json that fails verification on load is dropped
\* from memory and never reported allowed, but it stays in the file: it is
\* still there after the load and after any later allow_peer, revoke_peer or
\* rotate_signing_key of that instance on other peers.
C19_DiscardedEntryStaysOnDisk ==
    [][\A p \in AllowPeerIds :
          (/\ idm.made /\ idm'.made
           /\ p \in Discarded(idm.signing_key, allowFile)
           /\ p \notin DOMAIN idm.allowlist
           /\ \/ \E q \in AllowPeerIds \ {p} : allow_peer(q) \/ revoke_peer(q)
              \/ rotate_signing_key)
          => /\ allowFile'.exists
             /\ p \in DOMAIN allowFile'.data
             /\ allowFile'.data[p] = allowFile.data[p]]_vars

\* C20: writes are atomic-or-nothing: when the process has stopped inside
\* allow_peer, revoke_peer, rotate_signing_key or the creation of the signing
\* key, signing.key and allowlist.json each hold a complete content, the
\* previous one or the new one, never a partial one.
C20_WritesAtomic ==
    (~idm.made /\ idlast.op = "stopped")
    => /\ keyFile.exists => keyFile.len = SIGNING_KEY_BYTES
       /\ allowFile.exists => allowFile.complete

\* C24: revoke_peer(p) for a peer that is not in the allowlist raises KeyError
\* and leaves the allowlist in memory, allowlist.json and signing.key as they
\* were.
C24_RevokeMissingChangesNothing ==
    [][(/\ idm.made /\ idm'.made
        /\ idlast'.op = "revoke_peer"
        /\ idlast'.peer \notin DOMAIN idm.allowlist)
       => /\ idlast'.res = "KeyError"
          /\ idm' = idm
          /\ allowFile' = allowFile
          /\ keyFile' = keyFile]_vars

\* revoke_peer has raised KeyError for a peer whose entry is in
\* allowlist.json but was discarded when the instance loaded the file
C24_Witness ==
    /\ idm.made
    /\ idlast.op = "revoke_peer" /\ idlast.res = "KeyError"
    /\ allowFile.exists
    /\ idlast.peer \in DOMAIN allowFile.data
    /\ \E q \in AllowPeerIds : q \in DOMAIN idm.allowlist

\* the outcomes of verify_pairing_token that are a peer_id or an IdentityError
TokenOutcomes == {"ok", "Malformed", "InvalidSignature", "Expired", "Replayed"}

\* C26: verify_pairing_token on any string returns a peer_id or raises
\* Malformed, InvalidSignature, Expired or Replayed, and nothing else; a
\* string that has not five fields, or whose version is not "1", raises
\* Malformed.
C26_OnlyIdentityErrors ==
    Verified
    => /\ idlast.res.kind \in TokenOutcomes
       /\ (\/ Len(Split(idlast.token, Colon)) # 5
           \/ Split(idlast.token, Colon)[1] # TOKEN_VERSION)
          => idlast.res.kind = "Malformed"

\* C27: create_pairing_token changes nothing of the manager: the replay
\* ledger, the allowlist, the signing key and the files are the same after it,
\* and the nonce of a token that this instance was never asked to verify is
\* not in its ledger.
C27_IssuanceIsStateless ==
    [][/\ (idm.made /\ idlast'.op = "create" /\ Len(issued') = Len(issued) + 1)
          => /\ idm' = idm
             /\ keyFile' = keyFile
             /\ allowFile' = allowFile
             /\ keysMade' = keysMade
       /\ idm'.made
          => \A i \in 1..Len(issued') :
                 i \notin tried'
                 => NonceOf(issued'[i].token) \notin DOMAIN idm'.nonce_store]_vars

\* a token has just been issued by an instance that holds an allowlist and
\* has rotated its key
C27_Witness ==
    /\ idm.made
    /\ idlast.op = "create"
    /\ DOMAIN idm.allowlist # {}
    /\ idm.signing_key > 1
    /\ NonceOf(idlast.token) \notin DOMAIN idm.nonce_store

\* C30: the signing key is persisted once and reused: an instance uses the
\* 32-byte key of signing.key; constructing a manager on a directory that
\* holds a key leaves the file alone and takes that key; only
\* rotate_signing_key replaces it; so, as long as no rotation took place, a
\* token issued by one instance is accepted (first use, inside its TTL) by a
\* later instance, and the peers allowed by one instance are allowed on the
\* next.
C30_SigningKeyReused ==
    [][/\ idm'.made
          => /\ keyFile'.exists /\ keyFile'.len = SIGNING_KEY_BYTES
             /\ idm'.signing_key = keyFile'.key
       /\ (~idm.made /\ idm'.made /\ keyFile.exists)
          => /\ keyFile' = keyFile
             /\ idm'.signing_key = keyFile.key
             /\ AllowedPeers(idm').peers = allowRef
       /\ (keyFile.exists /\ keyFile' # keyFile)
          => idlast'.op = "rotate_signing_key"
       /\ \A i \in 1..Len(issued') :
              (/\ idlast'.op = "verify"
               /\ idlast'.token = issued'[i].token
               /\ issued'[i].gen = keysMade'
               /\ idlast'.unused
               /\ now' - IssuedAt(issued'[i].token).n <= idm'.token_ttl
               /\ now' >= IssuedAt(issued'[i].token).n)
              => idlast'.res = [kind |-> "ok", peer |-> issued'[i].peer]]_vars

\* a manager has just been constructed on a directory whose key signed a
\* token and an allowlist entry of an earlier instance
C30_Witness ==
    /\ idm.made
    /\ idlast.op = "__init__"
    /\ Len(issued) > 0
    /\ idm.signing_key = issued[1].key
    /\ allowRef # {}
    /\ AllowedPeers(idm).peers = allowRef

\* C31 as stated: after a successful verify_pairing_token the ledger entry of
\* the token's nonce expires at issued_at + 86400.
C31_ExpiryFromIssuance ==
    (Verified /\ idlast.res.kind = "ok")
    => /\ NonceOf(idlast.token) \in DOMAIN idm.nonce_store
       /\ idm.nonce_store[NonceOf(idlast.token)]
              = IssuedAt(idlast.token).n + NONCE_STORE_TTL

\* C31: after a successful verify_pairing_token the ledger entry of the
\* token's nonce expires 86400 s after the time of the verification, whatever
\* the token TTL and the age of the token are.
C31_ExpiryFromVerification ==
    (Verified /\ idlast.res.kind = "ok")
    => /\ NonceOf(idlast.token) \in DOMAIN idm.nonce_store
       /\ idm.nonce_store[NonceOf(idlast.token)] = now + NONCE_STORE_TTL

\* a token has just been accepted some time after it was issued, by a manager
\* whose token TTL is not the default
C31_Witness ==
    /\ Verified /\ idlast.res.kind = "ok"
    /\ now > IssuedAt(idlast.token).n
    /\ idm.token_ttl # DEFAULT_TOKEN_TTL
    /\ idm.nonce_store[NonceOf(idlast.token)] = now + NONCE_STORE_TTL

\* C32: the checks run in the order signature, expiry, replay: a correctly
\* signed token outside its TTL window fails with Expired, in the ledger or
\* not, and leaves the ledger as it was; a call that answers Replayed or
\* changes the ledger was given a correctly signed token inside its window.
C32_SignatureExpiryReplay ==
    [][idlast'.op = "verify"
       => LET token == idlast'.token
              signed == CorrectlySigned(idm.signing_key, token)
              inside == /\ IssuedAt(token).err = ""
                        /\ ~Expired(now - IssuedAt(token).n, idm.token_ttl)
          IN /\ (signed /\ IssuedAt(token).err = "" /\ ~inside)
                => /\ idlast'.res.kind = "Expired"
                   /\ idm'.nonce_store = idm.nonce_store
             /\ (\/ idlast'.res.kind = "Replayed"
                 \/ idm'.nonce_store # idm.nonce_store)
                => signed /\ inside]_vars

\* a correctly signed token that is in the ledger and older than the TTL has
\* just been refused as expired
C32_Witness ==
    /\ Verified
    /\ CorrectlySigned(idm.signing_key, idlast.token)
    /\ ~idlast.unused
    /\ NonceOf(idlast.token) \in DOMAIN idm.nonce_store
    /\ now - IssuedAt(idlast.token).n > idm.token_ttl
    /\ idlast.res.kind = "Expired"

\* C33: every successful verify_pairing_token returns a peer_id for which
\* create_pairing_token was called under the current signing key, and the
\* issued_at and nonce of the accepted token are the ones of that call, also
\* for a peer_id that contains "|"; so no nonce is accepted twice.
C33_TokenBinding ==
    /\ (Verified /\ idlast.res.kind = "ok")
       => \E i \in 1..Len(issued) :
              /\ issued[i].peer = idlast.res.peer
              /\ issued[i].key = idm.signing_key
              /\ Split(issued[i].token, Colon)[3] = Split(idlast.token, Colon)[3]
              /\ NonceOf(issued[i].token) = NonceOf(idlast.token)
    /\ \A n \in DOMAIN accepted : accepted[n].count <= 1

\* C34: a verify_pairing_token that fails with Malformed, InvalidSignature
\* or Expired leaves the replay ledger as it was; one that fails with Replayed
\* adds nothing to it; the ledger gains a nonce only when the call succeeds,
\* and then the nonce of the token; no call changes the allowlist, the
\* signing key, the token TTL or a file.
C34_LedgerGainsOnSuccessOnly ==
    [][idlast'.op = "verify"
       => LET kind == idlast'.res.kind
              gained == DOMAIN idm'.nonce_store \ DOMAIN idm.nonce_store
          IN /\ kind \in {"Malformed", "InvalidSignature", "Expired"}
                => idm'.nonce_store = idm.nonce_store
             /\ kind = "Replayed" => gained = {}
             /\ \A n \in DOMAIN idm'.nonce_store :
                    (n \in gained \/ idm'.nonce_store[n] # idm.nonce_store[n])
                    => kind = "ok" /\ n = NonceOf(idlast'.token)
             /\ idm'.allowlist = idm.allowlist
             /\ idm'.signing_key = idm.signing_key
             /\ idm'.token_ttl = idm.token_ttl
             /\ keyFile' = keyFile /\ allowFile' = allowFile]_vars

\* a manager that holds an allowed peer and a used nonce has just refused a
\* token as expired
C34_Witness ==
    /\ Verified
    /\ idlast.res.kind = "Expired"
    /\ DOMAIN idm.nonce_store # {}
    /\ DOMAIN idm.allowlist # {}
    /\ allowFile.exists

\* C35: a manager constructed on an allowlist.json in which the signature of
\* one peer was replaced by another value reports every peer whose entry
\* carries its signature as allowed.
C35_TamperingIsolated ==
    (/\ idm.made /\ idlast.op = "__init__"
     /\ allowFile.exists /\ allowFile.complete)
    => \A p \in DOMAIN allowFile.data :
           SignatureCheck(idm.signing_key, p, allowFile.data[p]) = "equal"
           => PeerAllowed(idm, p) = "True"

\* C39: a token this instance has verified successfully (its nonce is in the
\* ledger) is rejected, as long as the signing key is the one in signing.key,
\* by a new IdentityManager constructed now on the same directory, inside the
\* TTL of the token as well.
C39_ReplayRejectedAfterRestart ==
    (idm.made /\ ~NeedsKey(keyFile) /\ keyFile.key = idm.signing_key)
    => \A i \in 1..Len(issued) :
           (/\ NonceOf(issued[i].token) \in DOMAIN idm.nonce_store
            /\ issued[i].key = idm.signing_key)
           => VerifyResult(NewManager(idm.token_ttl, keyFile.key),
                           issued[i].token, now).res.kind # "ok"

\* C40: with an IdentityManager configured, an inbound message whose peer id
\* "<channel>:<sender id>" is not allowed when it is handled is not passed to
\* the router, has no typing indicator scheduled or sent, and gets no reply.
C40_AllowlistGate ==
    (chan.made /\ chan.identity)
    => \A i \in 1..Len(chan.msgs) :
           chan.msgs[i].gate # "True"
           => /\ ~chan.msgs[i].routed
              /\ chan.msgs[i].typing = "none"
              /\ chan.msgs[i].reply = "none"

\* a manager whose allowlist holds a peer has dropped the message of another
\* sender and answered the message of the allowed one
C40_Witness ==
    /\ chan.made /\ chan.identity
    /\ \E i, j \in 1..Len(chan.msgs) :
           /\ chan.msgs[i].gate = "False" /\ ~chan.msgs[i].routed
           /\ chan.msgs[j].gate = "True" /\ chan.msgs[j].reply = "sent"
                                         /\ chan.msgs[j].typing = "sent"

====
